---------------------------- MODULE Spec2Model ----------------------------
(***************************************************************************)
(* Comparison and trust-scoring engine of the KenyaRe fraud dashboard:     *)
(* utils/mockComparisonData (generateMockComparisonData) and the           *)
(* comparator expressions it is built from.                                *)
(*                                                                         *)
(* JavaScript numbers that can be fractional (percentages, scores) are     *)
(* modelled as exact fractions [n, d]; d = 0 encodes the non-finite IEEE   *)
(* values: [0,0] is NaN, [1,0] is +Infinity, [-1,0] is -Infinity.          *)
(* Amounts and counts, on which the code does integer arithmetic only,     *)
(* are plain integers.                                                     *)
(***************************************************************************)
EXTENDS Integers, Sequences, FiniteSets, TLC

VARIABLES op, args, result

\* the comparison engine
engineVars == <<op, args, result>>

\* one call of a public ApiService method: the method and its arguments, the
\* position in the method and in request, the endpoint requested, the
\* Response fetch resolved with and the promise the method returned
VARIABLES apiCall, apiPc, endpoint, response, promise

apiVars == <<apiCall, apiPc, endpoint, response, promise>>

\* App and AuthScreen: App's user, the state of the mounted AuthScreen
\* (tab, isLoading, error, login, register; the initial values while none is
\* mounted), the login requests in flight, each with the credentials its
\* handler closed over and whether the AuthScreen that sent it is still
\* mounted, and the handler that ran last with what it saw
VARIABLES user, tab, isLoading, error, login, register, logins, authEvent

authVars == <<user, tab, isLoading, error, login, register, logins, authEvent>>

\* AuthScreen's part of authVars
authScreenVars == <<tab, isLoading, error, login, register, logins, authEvent>>

\* MainDashboard: its state (activeView, isRunningAnalysis; the initial
\* values while none is mounted), the analysis runs in flight, each with its
\* position and whether the MainDashboard that started it is still mounted,
\* and the handler that ran last with what it did
VARIABLES activeView, isRunningAnalysis, runs, dashEvent

dashVars == <<activeView, isRunningAnalysis, runs, dashEvent>>

\* TicketFeed: its state (reports, isLoading and error, here feedIsLoading
\* and feedError; the initial values while none is mounted), the getReports
\* requests in flight, each with whether the TicketFeed that sent it is still
\* mounted and whether it is the one started last, and how the request the
\* mounted TicketFeed started last has ended
VARIABLES reports, feedIsLoading, feedError, fetches, latestFetch

feedVars == <<reports, feedIsLoading, feedError, fetches, latestFetch>>

\* The ticket dialog: TicketFeed's selectedTicket, the state of the mounted
\* TicketDetail (reviewComment, reviewDecision, currentStatus,
\* isEditingStatus; the initial values while none is mounted), the timers
\* set by TicketDetail.handleCloseTicket that have not fired yet, each with
\* the ticket id it will close, and the handler that ran last with what it
\* submitted
VARIABLES selectedTicket, reviewComment, reviewDecision, currentStatus,
          isEditingStatus, closeTimers, ticketEvent

ticketVars == <<selectedTicket, reviewComment, reviewDecision, currentStatus,
                isEditingStatus, closeTimers, ticketEvent>>

vars == <<engineVars, apiVars, authVars, dashVars, feedVars, ticketVars>>

\* what a step of the engine leaves alone
nonEngineVars == <<apiVars, authVars, dashVars, feedVars, ticketVars>>

\* what a step of ApiService leaves alone
nonApiVars == <<engineVars, authVars, dashVars, feedVars, ticketVars>>

\* what a step of App and AuthScreen leaves alone
nonAuthVars == <<engineVars, apiVars, dashVars, feedVars, ticketVars>>

\* what a step of MainDashboard and of TicketFeed's fetching leaves alone
nonDashVars == <<engineVars, apiVars, authScreenVars, ticketVars>>

\* what a step of the ticket dialog leaves alone
nonTicketVars == <<engineVars, apiVars, authVars, dashVars>>

---------------------------------------------------------------------------
(* Bounds of the exploration *)

\* longest date list handed to the date comparison
MaxLen == 2

---------------------------------------------------------------------------
(* JavaScript number arithmetic on fractions *)

Abs(x) == IF x < 0 THEN -x ELSE x

Sign(x) == IF x < 0 THEN -1 ELSE IF x > 0 THEN 1 ELSE 0

RECURSIVE GCD(_, _)
GCD(a, b) == IF b = 0 THEN a ELSE GCD(b, a % b)

\* the canonical fraction n/d (d = 0: NaN or a signed infinity)
Rat(n, d) ==
    IF d = 0 THEN [n |-> Sign(n), d |-> 0]
    ELSE LET g == GCD(Abs(n), Abs(d))
             s == Sign(d)
         IN  [n |-> (s * n) \div g, d |-> (s * d) \div g]

FromInt(i) == [n |-> i, d |-> 1]

IsNaN(x) == x.d = 0 /\ x.n = 0

IsFinite(x) == x.d # 0

\* x / y : 0/0 is NaN, a non-zero number over 0 is a signed Infinity
RDiv(x, y) == Rat(x.n * y.d, x.d * y.n)

\* x * y : Infinity * 0 is NaN
RMul(x, y) == Rat(x.n * y.n, x.d * y.d)

\* x + y : Infinity + -Infinity is NaN
RAdd(x, y) ==
    IF IsFinite(x) /\ IsFinite(y) THEN Rat(x.n * y.d + y.n * x.d, x.d * y.d)
    ELSE IF IsNaN(x) \/ IsNaN(y) THEN Rat(0, 0)
    ELSE IF IsFinite(x) THEN y
    ELSE IF IsFinite(y) THEN x
    ELSE IF x.n = y.n THEN x ELSE Rat(0, 0)

\* Math.abs
RAbs(x) == [n |-> Abs(x.n), d |-> x.d]

\* x < y : every comparison with NaN is false
RLess(x, y) ==
    IF IsNaN(x) \/ IsNaN(y) THEN FALSE
    ELSE IF IsFinite(x) /\ IsFinite(y) THEN x.n * y.d < y.n * x.d
    ELSE IF IsFinite(x) THEN y.n > 0
    ELSE IF IsFinite(y) THEN x.n < 0
    ELSE x.n < y.n

\* x <= y
RLeq(x, y) == ~IsNaN(x) /\ ~IsNaN(y) /\ (x = y \/ RLess(x, y))

\* Math.min(x, y) : NaN if either is NaN
RMin(x, y) ==
    IF IsNaN(x) \/ IsNaN(y) THEN Rat(0, 0)
    ELSE IF RLess(y, x) THEN y ELSE x

\* Math.max of three list lengths
Max3(a, b, c) ==
    LET m == IF a >= b THEN a ELSE b
    IN  IF m >= c THEN m ELSE c

Min2(a, b) == IF a <= b THEN a ELSE b

Range(s) == {s[i] : i \in 1..Len(s)}

---------------------------------------------------------------------------
(* Date comparison: generateMockComparisonData, lines 26-48 *)

\* faulty variant: every matching pair of positions is counted
CountMatches_Pairs(a, b) ==
    Cardinality({ p \in (1..Len(a)) \X (1..Len(b)) : a[p[1]] = b[p[2]] })

\* b.includes(d)
Includes(b, d) == \E j \in 1..Len(b) : b[j] = d

\* a.filter(d => b.includes(d)).length
CountMatches(a, b) == Len(SelectSeq(a, LAMBDA d : Includes(b, d)))

\* faulty variant: the three pair counts are not averaged
matchPercentage_NoTriple(statementGtMatches, treatyGtMatches, statementTreatyMatches, totalPossibleMatches) ==
    RMul(RDiv(FromInt(statementGtMatches + treatyGtMatches + statementTreatyMatches),
              FromInt(totalPossibleMatches)),
         FromInt(100))

\* ((sum of the three counts) / (totalPossibleMatches * 3)) * 100
matchPercentage(statementGtMatches, treatyGtMatches, statementTreatyMatches, totalPossibleMatches) ==
    RMul(RDiv(FromInt(statementGtMatches + treatyGtMatches + statementTreatyMatches),
              FromInt(totalPossibleMatches * 3)),
         FromInt(100))

dateComparison(statementDates, treatyDates, groundTruthDates, discrepancies) ==
    LET statementGtMatches == CountMatches(statementDates, groundTruthDates)
        treatyGtMatches == CountMatches(treatyDates, groundTruthDates)
        statementTreatyMatches == CountMatches(statementDates, treatyDates)
        totalPossibleMatches ==
            Max3(Len(statementDates), Len(treatyDates), Len(groundTruthDates))
    IN  [ statement_dates |-> statementDates,
          treaty_slip_dates |-> treatyDates,
          ground_truth_dates |-> groundTruthDates,
          matches |-> [ statement_gt_matches |-> statementGtMatches,
                        treaty_gt_matches |-> treatyGtMatches,
                        statement_treaty_matches |-> statementTreatyMatches ],
          discrepancies |-> discrepancies,
          match_percentage |->
              matchPercentage(statementGtMatches, treatyGtMatches,
                              statementTreatyMatches, totalPossibleMatches) ]

---------------------------------------------------------------------------
(* Financial comparison: generateMockComparisonData, lines 50-88 *)

\* faulty variant: an amount equal to the surplus is out of limits
cashLossLimit_Strict(treatySlipAmount, statementSurplus) ==
    LET withinLimits == treatySlipAmount < statementSurplus
        variance == RMul(RDiv(FromInt(treatySlipAmount - statementSurplus),
                              FromInt(statementSurplus)),
                         FromInt(100))
    IN  [ treaty_slip_amount |-> treatySlipAmount,
          statement_surplus_amount |-> statementSurplus,
          within_limits |-> withinLimits,
          variance_percentage |-> RAbs(variance),
          risk_flag |-> ~withinLimits ]

cashLossLimit(treatySlipAmount, statementSurplus) ==
    LET withinLimits == treatySlipAmount <= statementSurplus
        variance == RMul(RDiv(FromInt(treatySlipAmount - statementSurplus),
                              FromInt(statementSurplus)),
                         FromInt(100))
    IN  [ treaty_slip_amount |-> treatySlipAmount,
          statement_surplus_amount |-> statementSurplus,
          within_limits |-> withinLimits,
          variance_percentage |-> RAbs(variance),
          risk_flag |-> ~withinLimits ]

\* faulty variant: a difference of exactly 5000 is a match
commissions_Inclusive(treatyCommission, statementCommission) ==
    LET commissionMatch == Abs(treatyCommission - statementCommission) <= 5000
        commissionVariance == treatyCommission - statementCommission
        commissionVariancePercentage ==
            RMul(RDiv(FromInt(commissionVariance), FromInt(statementCommission)),
                 FromInt(100))
    IN  [ treaty_slip_commission |-> treatyCommission,
          statement_commission |-> statementCommission,
          match |-> commissionMatch,
          variance_amount |-> commissionVariance,
          variance_percentage |-> RAbs(commissionVariancePercentage) ]

\* faulty variant: the percentage is taken of the treaty commission
commissions_OfTreaty(treatyCommission, statementCommission) ==
    LET commissionMatch == Abs(treatyCommission - statementCommission) < 5000
        commissionVariance == treatyCommission - statementCommission
        commissionVariancePercentage ==
            RMul(RDiv(FromInt(commissionVariance), FromInt(treatyCommission)),
                 FromInt(100))
    IN  [ treaty_slip_commission |-> treatyCommission,
          statement_commission |-> statementCommission,
          match |-> commissionMatch,
          variance_amount |-> commissionVariance,
          variance_percentage |-> RAbs(commissionVariancePercentage) ]

commissions(treatyCommission, statementCommission) ==
    LET commissionMatch == Abs(treatyCommission - statementCommission) < 5000
        commissionVariance == treatyCommission - statementCommission
        commissionVariancePercentage ==
            RMul(RDiv(FromInt(commissionVariance), FromInt(statementCommission)),
                 FromInt(100))
    IN  [ treaty_slip_commission |-> treatyCommission,
          statement_commission |-> statementCommission,
          match |-> commissionMatch,
          variance_amount |-> commissionVariance,
          variance_percentage |-> RAbs(commissionVariancePercentage) ]

claimAmounts(isHighRisk) ==
    [ total_claims_statement |-> IF isHighRisk THEN 4200000 ELSE 3800000,
      total_claims_ground_truth |-> 3800000,
      variance |-> IF isHighRisk THEN 400000 ELSE 0,
      variance_percentage |-> IF isHighRisk THEN Rat(105, 10) ELSE FromInt(0),
      suspicious_patterns |->
          IF isHighRisk
          THEN << "Multiple claims submitted within 48 hours",
                  "Claim amounts follow suspicious round number pattern",
                  "Similar incident descriptions across multiple claims" >>
          ELSE << >> ]

financialComparison(isHighRisk) ==
    LET treatySlipAmount == IF isHighRisk THEN 2800000 ELSE 1200000
        statementSurplus == 2500000
        treatyCommission == IF isHighRisk THEN 125000 ELSE 120000
        statementCommission == 120000
    IN  [ cash_loss_limit |-> cashLossLimit(treatySlipAmount, statementSurplus),
          commissions |-> commissions(treatyCommission, statementCommission),
          claim_amounts |-> claimAmounts(isHighRisk) ]

---------------------------------------------------------------------------
(* Ground-truth comparison: generateMockComparisonData, lines 90-117 *)

\* faulty variant: the percentage is taken of the statement count
totalClaimsComparison_OfStatement(statementClaims, groundTruthClaims, isHighRisk) ==
    LET claimsMatch == statementClaims = groundTruthClaims
        claimsVariance == statementClaims - groundTruthClaims
        claimsVariancePercentage ==
            RMul(RDiv(FromInt(claimsVariance), FromInt(statementClaims)),
                 FromInt(100))
    IN  [ statement_claims |-> statementClaims,
          ground_truth_claims |-> groundTruthClaims,
          match |-> claimsMatch,
          variance |-> claimsVariance,
          variance_percentage |-> claimsVariancePercentage,
          missing_claims |-> << >>,
          extra_claims |-> << >> ]

totalClaimsComparison(statementClaims, groundTruthClaims, isHighRisk) ==
    LET claimsMatch == statementClaims = groundTruthClaims
        claimsVariance == statementClaims - groundTruthClaims
        claimsVariancePercentage ==
            RMul(RDiv(FromInt(claimsVariance), FromInt(groundTruthClaims)),
                 FromInt(100))
    IN  [ statement_claims |-> statementClaims,
          ground_truth_claims |-> groundTruthClaims,
          match |-> claimsMatch,
          variance |-> claimsVariance,
          variance_percentage |-> claimsVariancePercentage,
          missing_claims |-> << >>,
          extra_claims |->
              IF isHighRisk
              THEN << "Claim #2024-0918-001 - Not found in ground truth",
                      "Claim #2024-0918-002 - Duplicate entry detected",
                      "Claim #2024-0919-001 - Suspicious timing pattern" >>
              ELSE << >> ]

dataIntegrity(isHighRisk, isMediumRisk) ==
    [ completeness_score |-> FromInt(IF isHighRisk THEN 75 ELSE 95),
      accuracy_score |-> FromInt(IF isHighRisk THEN 68 ELSE 92),
      consistency_score |-> FromInt(IF isHighRisk THEN 72 ELSE 88),
      reliability_rating |->
          IF isHighRisk THEN "LOW" ELSE IF isMediumRisk THEN "MEDIUM" ELSE "HIGH" ]

groundTruthComparison(isHighRisk, isMediumRisk) ==
    LET statementClaims == IF isHighRisk THEN 15 ELSE 12
        groundTruthClaims == 12
    IN  [ total_claims_comparison |->
              totalClaimsComparison(statementClaims, groundTruthClaims, isHighRisk),
          data_integrity |-> dataIntegrity(isHighRisk, isMediumRisk) ]

---------------------------------------------------------------------------
(* Validation metrics: generateMockComparisonData, lines 119-134 *)

\* faulty variant: the score is left on the 0-160 scale of base + adjustment
trustScore_Unscaled(isHighRisk, isMediumRisk) ==
    RMul(FromInt(IF isHighRisk THEN 45 ELSE IF isMediumRisk THEN 72 ELSE 89),
         Rat(16, 10))

\* faulty variant: the medium-risk and the low-risk score are exchanged
trustScore_Swapped(isHighRisk, isMediumRisk) ==
    FromInt(IF isHighRisk THEN 45 ELSE IF isMediumRisk THEN 89 ELSE 72)

trustScore(isHighRisk, isMediumRisk) ==
    FromInt(IF isHighRisk THEN 45 ELSE IF isMediumRisk THEN 72 ELSE 89)

\* faulty variant: a match percentage of exactly 80 verifies the dates
validationMetrics_AtLeast80(isHighRisk, isMediumRisk, matchPct, financial_comparison, ground_truth_comparison) ==
    [ trust_score |-> trustScore(isHighRisk, isMediumRisk),
      reliability_indicators |->
          [ data_consistency |->
                FromInt(IF isHighRisk THEN 60 ELSE IF isMediumRisk THEN 75 ELSE 90),
            cross_reference_accuracy |->
                FromInt(IF isHighRisk THEN 55 ELSE IF isMediumRisk THEN 78 ELSE 88),
            financial_alignment |->
                FromInt(IF isHighRisk THEN 40 ELSE IF isMediumRisk THEN 70 ELSE 92),
            temporal_consistency |-> matchPct ],
      verification_status |->
          [ dates_verified |-> RLeq(FromInt(80), matchPct),
            amounts_verified |-> ~financial_comparison.cash_loss_limit.risk_flag,
            commissions_verified |-> financial_comparison.commissions.match,
            claims_count_verified |->
                ground_truth_comparison.total_claims_comparison.match ] ]

\* faulty variant: temporal_consistency is a per-classification constant like
\* the other three indicators
validationMetrics_ConstantTemporal(isHighRisk, isMediumRisk, matchPct, financial_comparison, ground_truth_comparison) ==
    [ trust_score |-> trustScore(isHighRisk, isMediumRisk),
      reliability_indicators |->
          [ data_consistency |->
                FromInt(IF isHighRisk THEN 60 ELSE IF isMediumRisk THEN 75 ELSE 90),
            cross_reference_accuracy |->
                FromInt(IF isHighRisk THEN 55 ELSE IF isMediumRisk THEN 78 ELSE 88),
            financial_alignment |->
                FromInt(IF isHighRisk THEN 40 ELSE IF isMediumRisk THEN 70 ELSE 92),
            temporal_consistency |->
                FromInt(IF isHighRisk THEN 78 ELSE 100) ],
      verification_status |->
          [ dates_verified |-> RLess(FromInt(80), matchPct),
            amounts_verified |-> ~financial_comparison.cash_loss_limit.risk_flag,
            commissions_verified |-> financial_comparison.commissions.match,
            claims_count_verified |->
                ground_truth_comparison.total_claims_comparison.match ] ]

validationMetrics(isHighRisk, isMediumRisk, matchPct, financial_comparison, ground_truth_comparison) ==
    [ trust_score |-> trustScore(isHighRisk, isMediumRisk),
      reliability_indicators |->
          [ data_consistency |->
                FromInt(IF isHighRisk THEN 60 ELSE IF isMediumRisk THEN 75 ELSE 90),
            cross_reference_accuracy |->
                FromInt(IF isHighRisk THEN 55 ELSE IF isMediumRisk THEN 78 ELSE 88),
            financial_alignment |->
                FromInt(IF isHighRisk THEN 40 ELSE IF isMediumRisk THEN 70 ELSE 92),
            temporal_consistency |-> matchPct ],
      verification_status |->
          [ dates_verified |-> RLess(FromInt(80), matchPct),
            amounts_verified |-> ~financial_comparison.cash_loss_limit.risk_flag,
            commissions_verified |-> financial_comparison.commissions.match,
            claims_count_verified |->
                ground_truth_comparison.total_claims_comparison.match ] ]

---------------------------------------------------------------------------
(* generateMockComparisonData(reportId, classification), lines 4-179 *)

mockDateComparison(isHighRisk) ==
    LET statementDates == << "2024-09-15", "2024-09-16", "2024-09-17" >>
        treatyDates == << "2024-09-15", "2024-09-16",
                          IF isHighRisk THEN "2024-09-20" ELSE "2024-09-17" >>
        groundTruthDates == << "2024-09-15", "2024-09-16", "2024-09-17" >>
    IN  dateComparison(statementDates, treatyDates, groundTruthDates,
            IF isHighRisk
            THEN << "Treaty slip date 2024-09-20 not found in ground truth data",
                    "Statement processing date differs from treaty slip by 3 days" >>
            ELSE << >>)

generateMockComparisonData(reportId, classification) ==
    LET isHighRisk == classification = "POTENTIALLY FRAUDULENT"
        isMediumRisk == classification = "INSUFFICIENT EVIDENCE"
        riskLevel == IF isHighRisk THEN "HIGH" ELSE IF isMediumRisk THEN "MEDIUM" ELSE "LOW"
        date_comparison == mockDateComparison(isHighRisk)
        financial_comparison == financialComparison(isHighRisk)
        ground_truth_comparison == groundTruthComparison(isHighRisk, isMediumRisk)
        validation_metrics ==
            validationMetrics(isHighRisk, isMediumRisk, date_comparison.match_percentage,
                              financial_comparison, ground_truth_comparison)
        statementGtMatches == date_comparison.matches.statement_gt_matches
        treatyGtMatches == date_comparison.matches.treaty_gt_matches
    IN  [ overall_compliance_score |->
              FromInt(IF isHighRisk THEN 35 ELSE IF isMediumRisk THEN 65 ELSE 85),
          overall_risk_level |-> riskLevel,
          pairing_confidence |->
              IF isHighRisk THEN Rat(60, 100)
              ELSE IF isMediumRisk THEN Rat(75, 100) ELSE Rat(90, 100),
          statement_compliance |->
              [ compliance_score |->
                    FromInt(IF isHighRisk THEN 40 ELSE IF isMediumRisk THEN 70 ELSE 88),
                risk_level |-> riskLevel,
                risk_indicators |->
                    IF isHighRisk
                    THEN << "Cash loss limit exceeded",
                            "Commission discrepancies detected",
                            "Date inconsistencies found" >>
                    ELSE << >>,
                ground_truth_analysis |->
                    [ matches_found |-> statementGtMatches,
                      avg_similarity |-> IF isHighRisk THEN Rat(65, 100) ELSE Rat(85, 100),
                      max_similarity |-> IF isHighRisk THEN Rat(78, 100) ELSE Rat(92, 100) ] ],
          treaty_slip_compliance |->
              [ compliance_score |->
                    FromInt(IF isHighRisk THEN 38 ELSE IF isMediumRisk THEN 68 ELSE 86),
                risk_level |-> riskLevel,
                risk_indicators |->
                    IF isHighRisk
                    THEN << "Amount exceeds surplus limits",
                            "Date discrepancies with ground truth" >>
                    ELSE << >>,
                ground_truth_analysis |->
                    [ matches_found |-> treatyGtMatches,
                      avg_similarity |-> IF isHighRisk THEN Rat(62, 100) ELSE Rat(83, 100),
                      max_similarity |-> IF isHighRisk THEN Rat(75, 100) ELSE Rat(90, 100) ] ],
          ground_truth_analysis |->
              [ matches_count |-> Min2(statementGtMatches, treatyGtMatches),
                avg_similarity |-> IF isHighRisk THEN Rat(63, 100) ELSE Rat(84, 100),
                max_similarity |-> IF isHighRisk THEN Rat(76, 100) ELSE Rat(91, 100) ],
          date_comparison |-> date_comparison,
          financial_comparison |-> financial_comparison,
          ground_truth_comparison |-> ground_truth_comparison,
          validation_metrics |-> validation_metrics ]

---------------------------------------------------------------------------
(* enhanceReportWithComparison(report, realComparisonData), lines 182-211 *)

\* the JavaScript value undefined: a parameter left out, a property not set
Undefined == [ undefined |-> TRUE ]

\* obj.key : undefined when the object has no such property
Get(obj, key) == IF key \in DOMAIN obj THEN obj[key] ELSE Undefined

\* the properties { ...obj } copies: none when obj is undefined
Spread(obj) == IF obj = Undefined THEN << >> ELSE obj

\* the four fields enhanceReportWithComparison assigns
ComparisonFields ==
    { "date_comparison", "financial_comparison", "ground_truth_comparison",
      "validation_metrics" }

\* an object is modelled by its properties that hold a value: the
\* properties of obj among keys that are not undefined
Pick(obj, keys) == [ k \in { f \in keys : f \in DOMAIN obj } |-> obj[k] ]

\* obj without the properties keys, which a later assignment overrides
Omit(obj, keys) == [ k \in DOMAIN obj \ keys |-> obj[k] ]

\* faulty variant: the existing analysis is not spread into the new one
enhanceReportWithComparison_NoSpread(report, realComparisonData) ==
    IF realComparisonData # Undefined /\ Get(realComparisonData, "status") = "success"
    THEN LET realData == Get(realComparisonData, "data")
         IN  IF realData = Undefined
             THEN [ threw |-> "TypeError", report |-> report ]
             ELSE [ threw |-> "",
                    report |->
                        [ report EXCEPT !.compliance_analysis =
                            Pick(realData, ComparisonFields) ] ]
    ELSE LET mockData == generateMockComparisonData(report.id, report.classification)
         IN  [ threw |-> "",
               report |->
                   [ report EXCEPT !.compliance_analysis =
                       IF report.compliance_analysis = Undefined
                       THEN mockData
                       ELSE [ date_comparison |-> mockData.date_comparison,
                              financial_comparison |-> mockData.financial_comparison,
                              ground_truth_comparison |-> mockData.ground_truth_comparison,
                              validation_metrics |-> mockData.validation_metrics ] ] ]

\* what the call returns: the report, mutated in place, or the TypeError that
\* reading a property of an undefined realComparisonData.data throws before
\* anything is assigned
enhanceReportWithComparison(report, realComparisonData) ==
    IF realComparisonData # Undefined /\ Get(realComparisonData, "status") = "success"
    THEN LET realData == Get(realComparisonData, "data")
         IN  IF realData = Undefined
             THEN [ threw |-> "TypeError", report |-> report ]
             ELSE [ threw |-> "",
                    report |->
                        [ report EXCEPT !.compliance_analysis =
                            Pick(realData, ComparisonFields)
                              @@ Omit(Spread(report.compliance_analysis),
                                      ComparisonFields) ] ]
    ELSE LET mockData == generateMockComparisonData(report.id, report.classification)
         IN  [ threw |-> "",
               report |->
                   [ report EXCEPT !.compliance_analysis =
                       IF report.compliance_analysis = Undefined
                       THEN mockData
                       ELSE [ date_comparison |-> mockData.date_comparison,
                              financial_comparison |-> mockData.financial_comparison,
                              ground_truth_comparison |-> mockData.ground_truth_comparison,
                              validation_metrics |-> mockData.validation_metrics ]
                                @@ Spread(report.compliance_analysis) ] ]

---------------------------------------------------------------------------
(* Inputs of the exploration *)

\* classification labels a report can carry (types.ts:136) and one unlisted label
Classifications ==
    { "VALID", "POTENTIALLY FRAUDULENT", "INSUFFICIENT EVIDENCE", "UNCLASSIFIED" }

ReportIds == { "RPT-001", "RPT-002" }

\* two days, the first of them also in a second spelling
Dates == { "2024-09-15", "2024-09-16", "15/09/2024" }

DateLists == UNION { [1..k -> Dates] : k \in 0..MaxLen }

\* the generator's amounts, the documented example's, and zero
Amounts == { 0, 1200000, 2500000, 2800000, 3000000 }

\* the generator's commissions and values around the 5000 tolerance
CommissionAmounts == { 0, 115000, 115001, 120000, 124999, 125000 }

\* the generator's claim counts, the documented example's, and zero
ClaimCounts == { 0, 3, 12, 15 }

\* match percentages as line 32 computes them: no dates at all (0/0), the
\* generator's 7 of 9, exactly 80 (12 of 15), just above it (13 of 15), all
MatchPercentages ==
    { matchPercentage(0, 0, 0, 0), matchPercentage(3, 2, 2, 3),
      matchPercentage(4, 4, 4, 5), matchPercentage(5, 4, 4, 5),
      matchPercentage(5, 5, 5, 5) }

\* the most fraud indicators on a report
MaxIndicators == 8

\* lists of n fraud indicators, n = 0 .. MaxIndicators
IndicatorLists == { [ i \in 1..n |-> "indicator" ] : n \in 0..MaxIndicators }

\* a compliance analysis as the backend sends it, without comparison fields
\* (the values of the test fixture, comparison-metrics.test.ts:7-34)
ServerAnalysis ==
    [ overall_compliance_score |-> Rat(855, 10),
      overall_risk_level |-> "medium",
      pairing_confidence |-> Rat(923, 10),
      statement_compliance |->
          [ compliance_score |-> FromInt(88),
            risk_level |-> "medium",
            risk_indicators |-> << "Minor discrepancy in dates" >>,
            ground_truth_analysis |->
                [ matches_found |-> 15, avg_similarity |-> Rat(87, 100),
                  max_similarity |-> Rat(95, 100) ] ],
      treaty_slip_compliance |->
          [ compliance_score |-> FromInt(83),
            risk_level |-> "medium",
            risk_indicators |-> << "Commission calculation variance" >>,
            ground_truth_analysis |->
                [ matches_found |-> 12, avg_similarity |-> Rat(82, 100),
                  max_similarity |-> Rat(91, 100) ] ],
      ground_truth_analysis |->
          [ matches_count |-> 18, avg_similarity |-> Rat(85, 100),
            max_similarity |-> Rat(95, 100) ] ]

\* the reports handed to enhanceReportWithComparison: without an analysis,
\* with the backend's analysis, and already enhanced by an earlier call
Reports ==
    { [ id |-> id, classification |-> classification, compliance_analysis |-> ca ] :
        id \in ReportIds, classification \in Classifications,
        ca \in { Undefined, ServerAnalysis } }
    \cup
    { [ id |-> id, classification |-> classification,
        compliance_analysis |-> generateMockComparisonData(id, classification) ] :
        id \in ReportIds, classification \in Classifications }

\* the comparison fields of a document-analysis response (the values of the
\* documented response, comparison-system.md:63-132)
RealData ==
    [ date_comparison |->
          [ statement_dates |-> << "2024-01-15", "2024-02-20" >>,
            treaty_slip_dates |-> << "2024-01-15", "2024-02-20" >>,
            ground_truth_dates |-> << "2024-01-15", "2024-02-20" >>,
            matches |-> [ statement_gt_matches |-> 2, treaty_gt_matches |-> 2,
                          statement_treaty_matches |-> 2 ],
            discrepancies |-> << >>,
            match_percentage |-> FromInt(100) ],
      financial_comparison |->
          [ cash_loss_limit |->
                [ treaty_slip_amount |-> 2500000,
                  statement_surplus_amount |-> 3000000,
                  within_limits |-> TRUE,
                  variance_percentage |-> Rat(-167, 10),
                  risk_flag |-> FALSE ],
            commissions |->
                [ treaty_slip_commission |-> 125000,
                  statement_commission |-> 120000,
                  match |-> TRUE,
                  variance_amount |-> 5000,
                  variance_percentage |-> Rat(42, 10) ],
            claim_amounts |->
                [ total_claims_statement |-> 2450000,
                  total_claims_ground_truth |-> 2450000,
                  variance |-> 0,
                  variance_percentage |-> FromInt(0),
                  suspicious_patterns |-> << >> ] ],
      ground_truth_comparison |->
          [ total_claims_comparison |->
                [ statement_claims |-> 3, ground_truth_claims |-> 3,
                  match |-> TRUE, variance |-> 0,
                  variance_percentage |-> FromInt(0),
                  missing_claims |-> << >>, extra_claims |-> << >> ],
            data_integrity |->
                [ completeness_score |-> FromInt(100),
                  accuracy_score |-> Rat(955, 10),
                  consistency_score |-> FromInt(92),
                  reliability_rating |-> "HIGH" ] ],
      validation_metrics |->
          [ trust_score |-> Rat(892, 10),
            reliability_indicators |->
                [ data_consistency |-> Rat(905, 10),
                  cross_reference_accuracy |-> Rat(955, 10),
                  financial_alignment |-> FromInt(85),
                  temporal_consistency |-> Rat(889, 10) ],
            verification_status |->
                [ dates_verified |-> TRUE, amounts_verified |-> TRUE,
                  commissions_verified |-> TRUE,
                  claims_count_verified |-> TRUE ] ] ]

\* the comparison fields of mockComplianceAnalysis
\* (comparison-metrics.test.ts:36-102): those of the documented response
\* with other dates
FixtureData ==
    [ date_comparison |->
          [ statement_dates |-> << "2024-01-15", "2024-02-20", "2024-03-10" >>,
            treaty_slip_dates |-> << "2024-01-15", "2024-02-20" >>,
            ground_truth_dates |-> << "2024-01-15", "2024-02-20", "2024-03-10" >>,
            matches |-> [ statement_gt_matches |-> 3, treaty_gt_matches |-> 2,
                          statement_treaty_matches |-> 2 ],
            discrepancies |-> << "Treaty slip missing March 2024 date" >>,
            match_percentage |-> Rat(889, 10) ] ]
        @@ RealData

\* the second argument: left out, an error response (ApiResponse,
\* part_000:215-219), a success response with all four comparison fields
\* (the documented one and the test fixture's),
\* one whose data lacks validation_metrics, and one without data
RealComparisonInputs ==
    { Undefined,
      [ status |-> "error", message |-> "HTTP error! status: 500" ],
      [ status |-> "success", data |-> RealData ],
      [ status |-> "success", data |-> FixtureData ],
      [ status |-> "success",
        data |-> [ date_comparison |-> RealData.date_comparison,
                   financial_comparison |-> RealData.financial_comparison,
                   ground_truth_comparison |-> RealData.ground_truth_comparison ] ],
      [ status |-> "success" ] }

---------------------------------------------------------------------------
(* TicketFeed's conversion of reports to tickets, TicketDetail.tsx 541-638 *)

\* faulty variant: the fraudulent band starts at 70
getFraudScore_LowBase(classification, indicators) ==
    IF classification = "POTENTIALLY FRAUDULENT"
    THEN Min2(70 + Len(indicators) * 5, 100)
    ELSE IF classification = "INSUFFICIENT EVIDENCE"
    THEN Min2(40 + Len(indicators) * 10, 70)
    ELSE LET low == 20 - Len(indicators) * 5 IN IF low >= 5 THEN low ELSE 5

\* getFraudScore(classification, indicators), lines 630-638
getFraudScore(classification, indicators) ==
    IF classification = "POTENTIALLY FRAUDULENT"
    THEN Min2(80 + Len(indicators) * 5, 100)
    ELSE IF classification = "INSUFFICIENT EVIDENCE"
    THEN Min2(40 + Len(indicators) * 10, 70)
    ELSE LET low == 20 - Len(indicators) * 5 IN IF low >= 5 THEN low ELSE 5

\* getFraudScoreColor(score), lines 541-545
getFraudScoreColor(score) ==
    IF score >= 80 THEN "text-red-600"
    ELSE IF score >= 50 THEN "text-yellow-600"
    ELSE "text-green-600"

\* getStatusFromClassification(classification), lines 617-628
getStatusFromClassification(classification) ==
    CASE classification = "VALID" -> "Auto Approved"
      [] classification = "POTENTIALLY FRAUDULENT" -> "Flagged"
      [] classification = "INSUFFICIENT EVIDENCE" -> "Pending Review"
      [] OTHER -> "Pending Review"

\* one element of convertReportsToTickets(reports), lines 592-614: the
\* fields the ticket dialog and the score column use
Ticket(report) ==
    [ id |-> << "#" >> \o report.id,
      status |-> getStatusFromClassification(report.classification),
      fraudScore |-> getFraudScore(report.classification, report.fraud_indicators),
      classification |-> report.classification,
      fraudIndicators |-> report.fraud_indicators ]

---------------------------------------------------------------------------
(* The engine as a state machine. It keeps no state between calls: a call  *)
(* starts from idle, op names the operation called, args its arguments and *)
(* result what it returned, until the caller is done with the result.      *)

NoArgs == [ none |-> TRUE ]

NoResult == [ none |-> TRUE ]

\* no call of ApiService has been made
NoCall == [ none |-> TRUE ]

NoResponse == [ none |-> TRUE ]

NoPromise == [ state |-> "none" ]

ApiInit ==
    /\ apiCall = NoCall
    /\ apiPc = "idle"
    /\ endpoint = << >>
    /\ response = NoResponse
    /\ promise = NoPromise

\* the JavaScript value null
Null == [ null |-> TRUE ]

\* a string held where null may be held as well
Str(s) == [ str |-> s ]

\* App starts without a user; AuthScreen's useState initial values
AuthInit ==
    /\ user = Null
    /\ tab = "login"
    /\ isLoading = FALSE
    /\ error = Null
    /\ login = [ username |-> "", password |-> "" ]
    /\ register = [ name |-> "", email |-> "", password |-> "" ]
    /\ logins = << >>
    /\ authEvent = [ name |-> "mount" ]

\* MainDashboard's useState initial values; nothing has run
DashInit ==
    /\ activeView = "tickets"
    /\ isRunningAnalysis = FALSE
    /\ runs = << >>
    /\ dashEvent = [ name |-> "none" ]

\* TicketFeed's useState initial values; nothing has been fetched
FeedInit ==
    /\ reports = << >>
    /\ feedIsLoading = TRUE
    /\ feedError = Null
    /\ fetches = << >>
    /\ latestFetch = [ state |-> "none" ]

\* no ticket is selected, no TicketDetail is mounted, no timer is set
TicketInit ==
    /\ selectedTicket = Null
    /\ reviewComment = << >>
    /\ reviewDecision = Null
    /\ currentStatus = ""
    /\ isEditingStatus = FALSE
    /\ closeTimers = << >>
    /\ ticketEvent = [ name |-> "none" ]

Init ==
    /\ op = "idle"
    /\ args = NoArgs
    /\ result = NoResult
    /\ ApiInit
    /\ AuthInit
    /\ DashInit
    /\ FeedInit
    /\ TicketInit

Idle == op = "idle"

\* generateMockComparisonData(reportId, classification)
GenerateMock(reportId, classification) ==
    /\ Idle
    /\ UNCHANGED nonEngineVars
    /\ op' = "generateMockComparisonData"
    /\ args' = [ reportId |-> reportId, classification |-> classification ]
    /\ result' = generateMockComparisonData(reportId, classification)

\* the date comparison of lines 26-48 on three date lists
CompareDates(statementDates, treatyDates, groundTruthDates) ==
    /\ Idle
    /\ UNCHANGED nonEngineVars
    /\ op' = "dateComparison"
    /\ args' = [ statementDates |-> statementDates, treatyDates |-> treatyDates,
                 groundTruthDates |-> groundTruthDates ]
    /\ result' = dateComparison(statementDates, treatyDates, groundTruthDates, << >>)

\* the cash-loss-limit check of lines 51-54 and 63-69 on two amounts
CheckCashLossLimit(treatySlipAmount, statementSurplus) ==
    /\ Idle
    /\ UNCHANGED nonEngineVars
    /\ op' = "cashLossLimit"
    /\ args' = [ treatySlipAmount |-> treatySlipAmount,
                 statementSurplus |-> statementSurplus ]
    /\ result' = cashLossLimit(treatySlipAmount, statementSurplus)

\* the commission check of lines 56-60 and 70-76 on two commissions
CheckCommissions(treatyCommission, statementCommission) ==
    /\ Idle
    /\ UNCHANGED nonEngineVars
    /\ op' = "commissions"
    /\ args' = [ treatyCommission |-> treatyCommission,
                 statementCommission |-> statementCommission ]
    /\ result' = commissions(treatyCommission, statementCommission)

\* the claims-count check of lines 91-110 on two counts
CheckClaimsCount(statementClaims, groundTruthClaims) ==
    /\ Idle
    /\ UNCHANGED nonEngineVars
    /\ op' = "totalClaimsComparison"
    /\ args' = [ statementClaims |-> statementClaims,
                 groundTruthClaims |-> groundTruthClaims ]
    /\ result' = totalClaimsComparison(statementClaims, groundTruthClaims, FALSE)

\* the validation metrics of lines 119-134 on a match percentage and on the
\* financial and ground-truth comparisons of the given amounts and counts
CheckValidation(classification, matchPct, treatySlipAmount, treatyCommission, statementClaims) ==
    LET isHighRisk == classification = "POTENTIALLY FRAUDULENT"
        isMediumRisk == classification = "INSUFFICIENT EVIDENCE"
        financial_comparison ==
            [ cash_loss_limit |-> cashLossLimit(treatySlipAmount, 2500000),
              commissions |-> commissions(treatyCommission, 120000),
              claim_amounts |-> claimAmounts(isHighRisk) ]
        ground_truth_comparison ==
            [ total_claims_comparison |->
                  totalClaimsComparison(statementClaims, 12, isHighRisk),
              data_integrity |-> dataIntegrity(isHighRisk, isMediumRisk) ]
    IN  /\ Idle
        /\ UNCHANGED nonEngineVars
        /\ op' = "validationMetrics"
        /\ args' = [ classification |-> classification,
                     matchPercentage |-> matchPct,
                     financial_comparison |-> financial_comparison,
                     ground_truth_comparison |-> ground_truth_comparison ]
        /\ result' = validationMetrics(isHighRisk, isMediumRisk, matchPct,
                                       financial_comparison, ground_truth_comparison)

\* enhanceReportWithComparison(report, realComparisonData)
Enhance(report, realComparisonData) ==
    /\ Idle
    /\ UNCHANGED nonEngineVars
    /\ op' = "enhanceReportWithComparison"
    /\ args' = [ report |-> report, realComparisonData |-> realComparisonData ]
    /\ result' = enhanceReportWithComparison(report, realComparisonData)

\* getFraudScore(classification, indicators) and the colour of the score
GetFraudScore(classification, indicators) ==
    /\ Idle
    /\ UNCHANGED nonEngineVars
    /\ op' = "getFraudScore"
    /\ args' = [ classification |-> classification, indicators |-> indicators ]
    /\ result' = [ fraudScore |-> getFraudScore(classification, indicators),
                   color |-> getFraudScoreColor(getFraudScore(classification, indicators)),
                   status |-> getStatusFromClassification(classification) ]

\* the caller is done with the result; nothing of the call is kept
Release ==
    /\ op # "idle"
    /\ UNCHANGED nonEngineVars
    /\ op' = "idle"
    /\ args' = NoArgs
    /\ result' = NoResult

Next ==
    \/ /\ Idle
       /\ \E reportId \in ReportIds, classification \in Classifications :
             GenerateMock(reportId, classification)
    \/ /\ Idle
       /\ \E statementDates \in DateLists, treatyDates \in DateLists,
             groundTruthDates \in DateLists :
             CompareDates(statementDates, treatyDates, groundTruthDates)
    \/ /\ Idle
       /\ \E treatySlipAmount \in Amounts, statementSurplus \in Amounts :
             CheckCashLossLimit(treatySlipAmount, statementSurplus)
    \/ /\ Idle
       /\ \E treatyCommission \in CommissionAmounts,
             statementCommission \in CommissionAmounts :
             CheckCommissions(treatyCommission, statementCommission)
    \/ /\ Idle
       /\ \E statementClaims \in ClaimCounts, groundTruthClaims \in ClaimCounts :
             CheckClaimsCount(statementClaims, groundTruthClaims)
    \/ /\ Idle
       /\ \E classification \in Classifications, matchPct \in MatchPercentages,
             treatySlipAmount \in Amounts,
             treatyCommission \in { 120000, 124999, 125000 },
             statementClaims \in { 12, 15 } :
             CheckValidation(classification, matchPct, treatySlipAmount,
                             treatyCommission, statementClaims)
    \/ /\ Idle
       /\ \E report \in Reports, realComparisonData \in RealComparisonInputs :
             Enhance(report, realComparisonData)
    \/ /\ Idle
       /\ \E classification \in Classifications, indicators \in IndicatorLists :
             GetFraudScore(classification, indicators)
    \/ Release

Spec == Init /\ [][Next]_vars

---------------------------------------------------------------------------
(* Records present in a state *)

\* the analysis generateMockComparisonData returned, if that was the call
Analyses == IF op = "generateMockComparisonData" THEN { result } ELSE { }

DateRecords ==
    { a.date_comparison : a \in Analyses }
        \cup (IF op = "dateComparison" THEN { result } ELSE { })

CashLossRecords ==
    { a.financial_comparison.cash_loss_limit : a \in Analyses }
        \cup (IF op = "cashLossLimit" THEN { result } ELSE { })

CommissionRecords ==
    { a.financial_comparison.commissions : a \in Analyses }
        \cup (IF op = "commissions" THEN { result } ELSE { })

ClaimsCountRecords ==
    { a.ground_truth_comparison.total_claims_comparison : a \in Analyses }
        \cup (IF op = "totalClaimsComparison" THEN { result } ELSE { })

\* p is the finite number num / den * 100 (den # 0), as an exact fraction
IsPercentOf(p, num, den) == IsFinite(p) /\ p.n * den = num * 100 * p.d

\* p, rounded to three decimals, lies in [lo, hi) thousandths
InThousandths(p, lo, hi) == IsFinite(p) /\ lo * p.d <= p.n * 1000 /\ p.n * 1000 < hi * p.d

---------------------------------------------------------------------------
(* C1 *)

VerificationCount(v) ==
    (IF v.dates_verified THEN 1 ELSE 0) + (IF v.amounts_verified THEN 1 ELSE 0)
        + (IF v.commissions_verified THEN 1 ELSE 0)
        + (IF v.claims_count_verified THEN 1 ELSE 0)

\* min(100, (base + adjustment) / 1.6) of comparison-system.md, lines 146-157
DocumentedTrustScore(verification_status, statementScore, treatyScore) ==
    LET base == Rat(VerificationCount(verification_status) * 100, 4)
        adjustment == RAdd(RMul(statementScore, Rat(3, 10)), RMul(treatyScore, Rat(3, 10)))
    IN  RMin(FromInt(100), RDiv(RAdd(base, adjustment), Rat(16, 10)))

\* C1: in every analysis the engine returns, trust_score equals
\* min(100, (base + adjustment) / 1.6), with base = (number of true
\* verification flags) / 4 * 100 and adjustment = 0.3 * statement compliance
\* score + 0.3 * treaty-slip compliance score of that same analysis.
C1_TrustScoreIsDocumentedFormula ==
    \A a \in Analyses :
        a.validation_metrics.trust_score =
            DocumentedTrustScore(a.validation_metrics.verification_status,
                                 a.statement_compliance.compliance_score,
                                 a.treaty_slip_compliance.compliance_score)

---------------------------------------------------------------------------
(* C2 *)

\* HIGH / MEDIUM / LOW by the mean of the three integrity scores
RatingOfMean(di) ==
    LET mean == RDiv(RAdd(RAdd(di.completeness_score, di.accuracy_score),
                          di.consistency_score),
                     FromInt(3))
    IN  IF RLeq(FromInt(90), mean) THEN "HIGH"
        ELSE IF RLeq(FromInt(70), mean) THEN "MEDIUM" ELSE "LOW"

\* C2: in every returned analysis, data_integrity.reliability_rating is HIGH
\* when the mean of completeness, accuracy and consistency score is >= 90,
\* MEDIUM when it is >= 70 and < 90, and LOW otherwise.
C2_ReliabilityRatingIsByMean ==
    \A a \in Analyses :
        a.ground_truth_comparison.data_integrity.reliability_rating =
            RatingOfMean(a.ground_truth_comparison.data_integrity)

---------------------------------------------------------------------------
(* C3 *)

\* C3: in every cash_loss_limit record, within_limits is true exactly when
\* treaty_slip_amount <= statement_surplus_amount (equal amounts are within
\* limits), and risk_flag is the negation of within_limits.
C3_WithinLimitsAndRiskFlag ==
    \A c \in CashLossRecords :
        /\ c.within_limits = ~(c.treaty_slip_amount > c.statement_surplus_amount)
        /\ c.risk_flag = ~c.within_limits

\* a check of two equal, positive amounts was made and is within limits
C3_Witness ==
    /\ op = "cashLossLimit"
    /\ result.treaty_slip_amount = result.statement_surplus_amount
    /\ result.treaty_slip_amount > 0
    /\ result.within_limits /\ ~result.risk_flag

---------------------------------------------------------------------------
(* C4 *)

\* C4: the stored variance_percentage of the cash-loss check equals
\* (treaty_slip_amount - statement_surplus_amount) / statement_surplus_amount
\* * 100 and that of the commission check equals variance_amount /
\* statement_commission * 100, both signed (negative when the treaty figure
\* is below the statement figure).
C4_VariancePercentagesAreSigned ==
    \A a \in Analyses :
        LET c == a.financial_comparison.cash_loss_limit
            m == a.financial_comparison.commissions
        IN  /\ IsPercentOf(c.variance_percentage,
                           c.treaty_slip_amount - c.statement_surplus_amount,
                           c.statement_surplus_amount)
            /\ IsPercentOf(m.variance_percentage, m.variance_amount,
                           m.statement_commission)

---------------------------------------------------------------------------
(* C5 *)

---------------------------------------------------------------------------
(* C6 *)

\* the commission records for treaty commission 125,000 against statement
\* commission 120,000
Scenario3Records ==
    { m \in CommissionRecords :
        m.treaty_slip_commission = 125000 /\ m.statement_commission = 120000 }

---------------------------------------------------------------------------
(* C7 *)

\* C7: in every returned claim_amounts record, variance equals
\* total_claims_statement - total_claims_ground_truth and variance_percentage
\* equals variance / total_claims_ground_truth * 100 of those same totals.
C7_ClaimAmountVarianceIsComputed ==
    \A a \in Analyses :
        LET c == a.financial_comparison.claim_amounts
        IN  /\ c.variance = c.total_claims_statement - c.total_claims_ground_truth
            /\ IsPercentOf(c.variance_percentage, c.variance,
                           c.total_claims_ground_truth)

---------------------------------------------------------------------------
(* C8 *)

\* C8: in every total_claims_comparison record, variance = statement_claims -
\* ground_truth_claims, match is true exactly when variance is 0, and, for a
\* non-zero ground-truth count, variance_percentage = variance /
\* ground_truth_claims * 100; 15 against 12 gives match = false, variance = 3
\* and variance_percentage = 25.
C8_ClaimsCountComparison ==
    \A t \in ClaimsCountRecords :
        /\ t.variance = t.statement_claims - t.ground_truth_claims
        /\ t.match = (t.variance = 0)
        /\ (t.ground_truth_claims # 0 =>
               IsPercentOf(t.variance_percentage, t.variance, t.ground_truth_claims))
        /\ (t.statement_claims = 15 /\ t.ground_truth_claims = 12 =>
               ~t.match /\ t.variance = 3 /\ t.variance_percentage = FromInt(25))

\* the generator returned the comparison of 15 statement claims against 12
C8_Witness ==
    /\ op = "generateMockComparisonData"
    /\ result.ground_truth_comparison.total_claims_comparison.statement_claims = 15
    /\ result.ground_truth_comparison.total_claims_comparison.ground_truth_claims = 12
    /\ result.ground_truth_comparison.total_claims_comparison.variance_percentage
           = FromInt(25)

---------------------------------------------------------------------------
(* C9 *)

\* the positions of list a whose string occurs somewhere in list b
MatchingPositions(a, b) == { i \in 1..Len(a) : a[i] \in Range(b) }

\* C9: statement_gt_matches is the number of positions of the statement date
\* list whose string occurs in the ground-truth list (a repeated statement
\* date counts once per occurrence, a repeated ground-truth date adds nothing,
\* different spellings never match); treaty_gt_matches and
\* statement_treaty_matches likewise for (treaty, ground truth) and
\* (statement, treaty); each count is at most the length of its first list.
C9_MatchCountsArePositions ==
    \A d \in DateRecords :
        /\ d.matches.statement_gt_matches =
               Cardinality(MatchingPositions(d.statement_dates, d.ground_truth_dates))
        /\ d.matches.treaty_gt_matches =
               Cardinality(MatchingPositions(d.treaty_slip_dates, d.ground_truth_dates))
        /\ d.matches.statement_treaty_matches =
               Cardinality(MatchingPositions(d.statement_dates, d.treaty_slip_dates))
        /\ d.matches.statement_gt_matches <= Len(d.statement_dates)
        /\ d.matches.treaty_gt_matches <= Len(d.treaty_slip_dates)
        /\ d.matches.statement_treaty_matches <= Len(d.statement_dates)

\* a comparison was made of a statement list that repeats a date, a
\* ground-truth list that holds that date twice as well, and a treaty list
\* that spells the same day differently: the repeated date counted twice (not
\* four times) and the other spelling matched nothing
C9_Witness ==
    /\ op = "dateComparison"
    /\ result.statement_dates = << "2024-09-15", "2024-09-15" >>
    /\ result.ground_truth_dates = << "2024-09-15", "2024-09-15" >>
    /\ result.treaty_slip_dates = << "15/09/2024" >>
    /\ result.matches.statement_gt_matches = 2
    /\ result.matches.treaty_gt_matches = 0
    /\ result.matches.statement_treaty_matches = 0

---------------------------------------------------------------------------
(* C10 *)

---------------------------------------------------------------------------
(* C11 *)

---------------------------------------------------------------------------
(* C12 *)

---------------------------------------------------------------------------
(* Validation metrics present in a state, each with the comparison results *)
(* it was computed from                                                     *)

ValidationCases ==
    { [ match_percentage |-> a.date_comparison.match_percentage,
        financial_comparison |-> a.financial_comparison,
        ground_truth_comparison |-> a.ground_truth_comparison,
        validation_metrics |-> a.validation_metrics ] : a \in Analyses }
        \cup (IF op = "validationMetrics"
              THEN { [ match_percentage |-> args.matchPercentage,
                       financial_comparison |-> args.financial_comparison,
                       ground_truth_comparison |-> args.ground_truth_comparison,
                       validation_metrics |-> result ] }
              ELSE { })

---------------------------------------------------------------------------
(* C13 *)

\* C13: whatever the four verification flags and the two per-document
\* compliance scores are, trust_score lies in the closed interval [0, 100].
C13_TrustScoreInRange ==
    \A v \in ValidationCases :
        /\ RLeq(FromInt(0), v.validation_metrics.trust_score)
        /\ RLeq(v.validation_metrics.trust_score, FromInt(100))

\* validation metrics were computed with some flags true and some false
C13_Witness ==
    /\ op = "validationMetrics"
    /\ VerificationCount(result.verification_status) \in { 1, 2, 3 }
    /\ IsFinite(result.trust_score)

---------------------------------------------------------------------------
(* C14 *)

\* C14: the four verification flags are derived from the comparison results
\* of the same analysis: dates_verified = (match_percentage > 80, strictly),
\* amounts_verified = cash-loss within_limits, commissions_verified =
\* commission match, claims_count_verified = claims-count match.
C14_FlagsFollowComparisons ==
    \A v \in ValidationCases :
        LET s == v.validation_metrics.verification_status
            p == v.match_percentage
        IN  /\ s.dates_verified = (IsFinite(p) /\ p.n > 80 * p.d)
            /\ s.amounts_verified = v.financial_comparison.cash_loss_limit.within_limits
            /\ s.commissions_verified = v.financial_comparison.commissions.match
            /\ s.claims_count_verified =
                   v.ground_truth_comparison.total_claims_comparison.match

\* validation metrics were computed for a match percentage of exactly 80,
\* which does not verify the dates, with the other three checks passing
C14_Witness ==
    /\ op = "validationMetrics"
    /\ args.matchPercentage = FromInt(80)
    /\ ~result.verification_status.dates_verified
    /\ result.verification_status.amounts_verified
    /\ result.verification_status.commissions_verified
    /\ result.verification_status.claims_count_verified

---------------------------------------------------------------------------
(* C15 *)

\* what the claim calls the scores and comparison results of an analysis
Scores(a) ==
    [ trust_score |-> a.validation_metrics.trust_score,
      reliability_rating |-> a.ground_truth_comparison.data_integrity.reliability_rating,
      statement_score |-> a.statement_compliance.compliance_score,
      treaty_score |-> a.treaty_slip_compliance.compliance_score,
      date_comparison |-> a.date_comparison,
      financial_comparison |-> a.financial_comparison,
      total_claims_comparison |-> a.ground_truth_comparison.total_claims_comparison ]

\* C15: the classification label does not select the scores: a run for the
\* same report under any other label returns the same trust_score,
\* reliability_rating, compliance scores and comparison results.
C15_LabelDoesNotSelectScores ==
    \A a \in Analyses :
        \A classification \in Classifications :
            Scores(generateMockComparisonData(args.reportId, classification)) = Scores(a)

---------------------------------------------------------------------------
(* C17 *)

\* the analyses the engine returns for the report of the present call
RunsForSameReport ==
    { generateMockComparisonData(args.reportId, classification) :
          classification \in Classifications }

\* analysis b has the flags of a and compliance scores at least those of a
SameFlagsScoresRaised(a, b) ==
    /\ b.validation_metrics.verification_status = a.validation_metrics.verification_status
    /\ RLeq(a.statement_compliance.compliance_score, b.statement_compliance.compliance_score)
    /\ RLeq(a.treaty_slip_compliance.compliance_score,
            b.treaty_slip_compliance.compliance_score)

---------------------------------------------------------------------------
(* C18 *)

\* p is a value the zero-divisor policy allows for operands x, y and divisor
\* y: a finite number, and the sentinel 0 when x and y are both 0 (a zero
\* divisor under a non-zero x must yield no value at all)
RatioPolicy(p, x, y) ==
    /\ IsFinite(p)
    /\ (y = 0 => x = 0 /\ p = FromInt(0))

---------------------------------------------------------------------------
(* C19 *)

\* the fields of a fully populated compliance analysis
AnalysisFields ==
    { "overall_compliance_score", "overall_risk_level", "pairing_confidence",
      "statement_compliance", "treaty_slip_compliance", "date_comparison",
      "financial_comparison", "ground_truth_comparison", "validation_metrics" }

FullyPopulated(ca) ==
    /\ ca # Undefined
    /\ AnalysisFields \subseteq DOMAIN ca

\* C19: after enhanceReportWithComparison returns, compliance_analysis has
\* the overall score, risk level, pairing confidence, per-document records
\* and all four of date_comparison, financial_comparison,
\* ground_truth_comparison and validation_metrics defined; or else the call
\* failed with an error and attached nothing.
C19_NoPartialAnalysis ==
    op = "enhanceReportWithComparison" =>
        IF result.threw # ""
        THEN result.report = args.report
        ELSE FullyPopulated(result.report.compliance_analysis)

---------------------------------------------------------------------------
(* C20 *)

\* the analyses the engine computed in this state: the generator's, and the
\* one enhanceReportWithComparison attached from the generator (a success
\* response is copied from the server, not computed here)
ComputedAnalyses ==
    Analyses
        \cup (IF /\ op = "enhanceReportWithComparison"
                 /\ ~(/\ args.realComparisonData # Undefined
                      /\ args.realComparisonData.status = "success")
              THEN { result.report.compliance_analysis }
              ELSE { })

\* x and y are the same number (NaN only where both are)
SameNumber(x, y) == IF IsNaN(x) \/ IsNaN(y) THEN IsNaN(x) /\ IsNaN(y) ELSE x = y

---------------------------------------------------------------------------
(* C21 *)

\* the example records as the program holds them: the documented response
\* or the test fixture's comparison fields, attached to a report that had
\* no analysis or the backend's
ExampleRecords ==
    IF /\ op = "enhanceReportWithComparison"
       /\ args.realComparisonData \in { [ status |-> "success", data |-> RealData ],
                                        [ status |-> "success", data |-> FixtureData ] }
       /\ args.report.compliance_analysis \in { Undefined, ServerAnalysis }
    THEN { result.report.compliance_analysis }
    ELSE { }

\* shown is exact written with one decimal
ShownAs(shown, exact) ==
    /\ IsFinite(shown) /\ IsFinite(exact)
    /\ RLeq(RAbs(RAdd(exact, RMul(shown, FromInt(-1)))), Rat(1, 20))

\* the derived fields of r are what the rules give for the inputs in r
DerivedByRules(r) ==
    LET dc == r.date_comparison
        cl == r.financial_comparison.cash_loss_limit
        cm == r.financial_comparison.commissions
        tc == r.ground_truth_comparison.total_claims_comparison
        di == r.ground_truth_comparison.data_integrity
        vm == r.validation_metrics
        dates == dateComparison(dc.statement_dates, dc.treaty_slip_dates,
                                dc.ground_truth_dates, dc.discrepancies)
    IN  /\ dc.matches = dates.matches
        /\ ShownAs(dc.match_percentage, dates.match_percentage)
        /\ vm.reliability_indicators.temporal_consistency = dc.match_percentage
        /\ cm.match = commissions(cm.treaty_slip_commission,
                                  cm.statement_commission).match
        /\ ShownAs(cm.variance_percentage,
                   commissions(cm.treaty_slip_commission,
                               cm.statement_commission).variance_percentage)
        /\ ShownAs(cl.variance_percentage,
                   cashLossLimit(cl.treaty_slip_amount,
                                 cl.statement_surplus_amount).variance_percentage)
        /\ ShownAs(tc.variance_percentage,
                   totalClaimsComparison(tc.statement_claims, tc.ground_truth_claims,
                                         FALSE).variance_percentage)
        /\ di.reliability_rating = RatingOfMean(di)
        /\ "statement_compliance" \in DOMAIN r =>
              ShownAs(vm.trust_score,
                      DocumentedTrustScore(vm.verification_status,
                                           r.statement_compliance.compliance_score,
                                           r.treaty_slip_compliance.compliance_score))

\* C21: the example analysis record of the documentation and of the test
\* fixture is consistent with the engine's rules: its match_percentage,
\* temporal_consistency, commission match, variance percentages,
\* reliability_rating and trust_score are the values the rules derive from
\* the dates, amounts, counts, integrity scores and compliance scores in that
\* same record.
C21_ExampleRecordIsConsistent ==
    \A r \in ExampleRecords : DerivedByRules(r)

---------------------------------------------------------------------------
(* C22 *)

\* realComparisonData && realComparisonData.status === 'success'
IsSuccess(realComparisonData) ==
    /\ realComparisonData # Undefined
    /\ realComparisonData.status = "success"

\* C22: enhanceReportWithComparison replaces only the four comparison
\* fields. When the report already has a compliance_analysis, every other
\* field of it is unchanged after the call and none is added, in both
\* branches; nothing else of the report changes; and when the call returns,
\* the four fields are those of realComparisonData.data exactly when
\* realComparisonData.status is 'success', and those of the mock generator
\* for the report's id and classification otherwise.  (The call returns
\* unless a success response carries no data.)
C22_OnlyComparisonFieldsReplaced ==
    op = "enhanceReportWithComparison" =>
        LET old == args.report.compliance_analysis
            new == result.report.compliance_analysis
            real == args.realComparisonData
            mockData == generateMockComparisonData(args.report.id,
                                                   args.report.classification)
        IN  /\ result.report.id = args.report.id
            /\ result.report.classification = args.report.classification
            /\ old # Undefined =>
                  /\ new # Undefined
                  /\ DOMAIN new \ ComparisonFields = DOMAIN old \ ComparisonFields
                  /\ \A f \in DOMAIN old \ ComparisonFields : new[f] = old[f]
            /\ result.threw = "" =>
                  \A f \in ComparisonFields :
                      Get(new, f) = IF IsSuccess(real)
                                    THEN Get(real.data, f)
                                    ELSE mockData[f]
            /\ result.threw # "" =>
                  /\ IsSuccess(real) /\ "data" \notin DOMAIN real
                  /\ result.report = args.report

\* the backend's analysis was enhanced from a success response: its overall
\* fields are kept and the four comparison fields are the response's
C22_Witness ==
    /\ op = "enhanceReportWithComparison"
    /\ args.report.compliance_analysis = ServerAnalysis
    /\ args.realComparisonData = [ status |-> "success", data |-> RealData ]
    /\ result.threw = ""
    /\ result.report.compliance_analysis.overall_compliance_score = Rat(855, 10)
    /\ result.report.compliance_analysis.statement_compliance
         = ServerAnalysis.statement_compliance
    /\ result.report.compliance_analysis.validation_metrics
         = RealData.validation_metrics

---------------------------------------------------------------------------
(* ApiService, part_000 lines 257-363.  A string is the sequence of its     *)
(* UTF-16 code units; an endpoint is the sequence of its pieces.            *)

\* the two halves of U+1F600, valid only as a pair in this order
HighSurrogate == "U+D83D"

LowSurrogate == "U+DE00"

\* encodeURIComponent(chars) : every code unit outside the unreserved set is
\* percent-encoded as UTF-8; a surrogate that is not half of a pair throws
\* URIError
RECURSIVE encodeURIComponent(_)
encodeURIComponent(chars) ==
    IF chars = << >> THEN [ threw |-> "", value |-> << >> ]
    ELSE IF Head(chars) = HighSurrogate
    THEN IF Len(chars) >= 2 /\ chars[2] = LowSurrogate
         THEN LET rest == encodeURIComponent(Tail(Tail(chars)))
              IN  [ threw |-> rest.threw,
                    value |-> << "%F0%9F%98%80" >> \o rest.value ]
         ELSE [ threw |-> "URIError", value |-> << >> ]
    ELSE IF Head(chars) = LowSurrogate
    THEN [ threw |-> "URIError", value |-> << >> ]
    ELSE LET rest == encodeURIComponent(Tail(chars))
             unit == CASE Head(chars) = " " -> "%20"
                       [] Head(chars) = "/" -> "%2F"
                       [] OTHER -> Head(chars)
         IN  [ threw |-> rest.threw, value |-> << unit >> \o rest.value ]

\* what a public method does before it calls request: the endpoint it
\* builds, or the error thrown while building it
EndpointOf(call) ==
    CASE call.method = "login" -> [ threw |-> "", value |-> << "/login" >> ]
      [] call.method = "logout" -> [ threw |-> "", value |-> << "/logout" >> ]
      [] call.method = "getReports" -> [ threw |-> "", value |-> << "/api/reports" >> ]
      [] call.method = "getTickets" -> [ threw |-> "", value |-> << "/api/tickets" >> ]
      [] call.method = "getCompanies" ->
            [ threw |-> "", value |-> << "/api/companies" >> ]
      [] call.method = "getStats" -> [ threw |-> "", value |-> << "/api/stats" >> ]
      [] call.method = "getReportCompliance" ->
            [ threw |-> "",
              value |-> << "/api/reports/", call.args.reportId, "/compliance" >> ]
      [] call.method = "getDocumentSimilarity" ->
            [ threw |-> "",
              value |-> << "/api/documents/", call.args.vectorId, "/similarity" >> ]
      [] call.method = "get" -> [ threw |-> "", value |-> << call.args.endpoint >> ]
      [] call.method = "runAnalysis" ->
            [ threw |-> "", value |-> << "/run_analysis" >> ]
      [] call.method = "getPipelineStatus" ->
            [ threw |-> "", value |-> << "/api/pipeline/status" >> ]
      [] call.method = "analyzeDocuments" ->
            IF "folder" \notin DOMAIN call.args \/ call.args.folder = << >>
            THEN [ threw |-> "", value |-> << "/api/documents/analyze" >> ]
            ELSE LET encoded == encodeURIComponent(call.args.folder)
                 IN  [ threw |-> encoded.threw,
                       value |-> << "/api/documents/analyze", "?folder=" >>
                                   \o encoded.value ]

\* the value the catch block of request returns for a caught error
ErrorValue(caught) ==
    [ status |-> "error",
      message |-> IF caught.isError THEN caught.message
                  ELSE "Unknown error occurred" ]

\* new Error(`HTTP error! status: ${response.status}`)
HttpError(status) ==
    [ isError |-> TRUE,
      message |-> CASE status = 401 -> "HTTP error! status: 401"
                    [] status = 404 -> "HTTP error! status: 404"
                    [] status = 500 -> "HTTP error! status: 500"
                    [] OTHER -> "HTTP error! status" ]

\* response.ok
Ok(status) == status >= 200 /\ status <= 299

---------------------------------------------------------------------------
(* Inputs of the ApiService exploration *)

\* folder arguments: empty, plain, with a space and a slash, with a
\* surrogate pair, and ill-formed (a surrogate without its other half)
Folders ==
    { << >>, << "q", "3" >>, << "q", " ", "/" >>,
      << HighSurrogate, LowSurrogate >>, << HighSurrogate >>,
      << "q", LowSurrogate >> }

ApiCalls ==
    { [ method |-> m, args |-> NoArgs ] :
        m \in { "logout", "getReports", "getTickets", "getCompanies", "getStats",
                "runAnalysis", "getPipelineStatus", "analyzeDocuments" } }
    \cup { [ method |-> "login",
             args |-> [ username |-> "admin", password |-> "secret" ] ] }
    \cup { [ method |-> "getReportCompliance", args |-> [ reportId |-> id ] ] :
             id \in ReportIds }
    \cup { [ method |-> "getDocumentSimilarity", args |-> [ vectorId |-> "7" ] ] }
    \cup { [ method |-> "get",
             args |-> [ endpoint |-> "/api/reports/RPT-001/compliance" ] ] }
    \cup { [ method |-> "analyzeDocuments", args |-> [ folder |-> folder ] ] :
             folder \in Folders }

\* bodies a server sends: JSON payloads and a body that is not JSON
Payloads ==
    { [ status |-> "success", data |-> "payload" ],
      [ status |-> "success" ],
      [ status |-> "error", message |-> "Invalid credentials" ] }

Bodies ==
    { [ json |-> TRUE, value |-> p ] : p \in Payloads } \cup { [ json |-> FALSE ] }

HttpStatuses == { 200, 201, 401, 404, 500 }

Responses ==
    { [ status |-> s, ok |-> Ok(s), body |-> b ] : s \in HttpStatuses, b \in Bodies }

---------------------------------------------------------------------------
(* ApiService as a state machine: one call at a time, a step per await *)

\* a public method is called: it builds its endpoint and enters request,
\* which starts fetch; an error thrown before request rejects the promise
\* the async method returns
ApiCall(call) ==
    /\ apiPc = "idle"
    /\ UNCHANGED nonApiVars
    /\ apiCall' = call
    /\ response' = NoResponse
    /\ LET e == EndpointOf(call)
       IN  IF e.threw # ""
           THEN /\ endpoint' = << >>
                /\ promise' = [ state |-> "rejected", reason |-> e.threw ]
                /\ apiPc' = "settled"
           ELSE /\ endpoint' = e.value
                /\ promise' = [ state |-> "pending" ]
                /\ apiPc' = "fetch"

\* fetch rejects (network failure): the catch block returns an error value
FetchRejects ==
    /\ apiPc = "fetch"
    /\ UNCHANGED nonApiVars
    /\ UNCHANGED <<apiCall, endpoint, response>>
    /\ promise' = [ state |-> "fulfilled",
                    value |-> ErrorValue([ isError |-> TRUE,
                                           message |-> "Failed to fetch" ]) ]
    /\ apiPc' = "settled"

\* fetch resolves with a Response: not ok throws into the catch block,
\* ok goes on to await response.json()
FetchResolves(r) ==
    /\ apiPc = "fetch"
    /\ UNCHANGED nonApiVars
    /\ UNCHANGED <<apiCall, endpoint>>
    /\ response' = r
    /\ IF ~r.ok
       THEN /\ promise' = [ state |-> "fulfilled",
                            value |-> ErrorValue(HttpError(r.status)) ]
            /\ apiPc' = "settled"
       ELSE /\ UNCHANGED promise
            /\ apiPc' = "json"

\* response.json() resolves: request returns the parsed body
JsonResolves ==
    /\ apiPc = "json"
    /\ response.body.json
    /\ UNCHANGED nonApiVars
    /\ UNCHANGED <<apiCall, endpoint, response>>
    /\ promise' = [ state |-> "fulfilled", value |-> response.body.value ]
    /\ apiPc' = "settled"

\* response.json() rejects with a SyntaxError: the catch block returns an
\* error value
JsonRejects ==
    /\ apiPc = "json"
    /\ ~response.body.json
    /\ UNCHANGED nonApiVars
    /\ UNCHANGED <<apiCall, endpoint, response>>
    /\ promise' = [ state |-> "fulfilled",
                    value |-> ErrorValue([ isError |-> TRUE,
                                           message |-> "Unexpected token < in JSON" ]) ]
    /\ apiPc' = "settled"

\* the caller has taken the outcome
ApiRelease ==
    /\ apiPc = "settled"
    /\ UNCHANGED nonApiVars
    /\ apiCall' = NoCall
    /\ apiPc' = "idle"
    /\ endpoint' = << >>
    /\ response' = NoResponse
    /\ promise' = NoPromise

ApiNext ==
    \/ /\ apiPc = "idle"
       /\ \E call \in ApiCalls : ApiCall(call)
    \/ FetchRejects
    \/ /\ apiPc = "fetch"
       /\ \E r \in Responses : FetchResolves(r)
    \/ JsonResolves
    \/ JsonRejects
    \/ ApiRelease

ApiSpec == Init /\ [][ApiNext]_vars

---------------------------------------------------------------------------
(* C23 *)

\* an error value {status: 'error', message}
IsErrorValue(v) ==
    /\ DOMAIN v = { "status", "message" }
    /\ v.status = "error"

\* C23: no call of a public ApiService method rejects: a network failure, a
\* non-2xx HTTP status and an unparsable body all produce a resolved value
\* {status: 'error', message}, so every call resolves with either the
\* server's payload or an error value.
C23_NeverRejects ==
    /\ promise.state # "rejected"
    /\ promise.state = "fulfilled" =>
          \/ /\ response # NoResponse /\ response.ok /\ response.body.json
             /\ promise.value = response.body.value
          \/ /\ response = NoResponse \/ ~response.ok \/ ~response.body.json
             /\ IsErrorValue(promise.value)

---------------------------------------------------------------------------
(* App (App.tsx) and AuthScreen (AuthScreen.tsx) *)

\* what App renders
Screen == IF user = Null THEN "AuthScreen" ELSE "MainDashboard"

\* username.includes('@')
IncludesAt(username) == username \in { "amina@kenyare.com" }

\* the UserData submitLogin hands to onLogin
LoginUserData(username) ==
    [ name |-> username,
      email |-> IF IncludesAt(username) THEN Str(username)
                ELSE [ local |-> username, domain |-> "@company.com" ],
      role |-> IF username = "admin" THEN "Administrator" ELSE "Analyst" ]

\* the UserData submitRegister hands to onLogin
RegisterUserData(r) ==
    [ name |-> r.name, email |-> Str(r.email), role |-> "Analyst" ]

\* !login.username || !login.password
LoginIncomplete(l) == l.username = "" \/ l.password = ""

\* !register.name || !register.email || !register.password
RegisterIncomplete(r) == r.name = "" \/ r.email = "" \/ r.password = ""

\* faulty variant: every response that has a status logs the user in
submitLoginSettled_AnyStatus(resp) ==
    IF resp = Null
    THEN [ onLogin |-> FALSE, setError |-> Str("Network error. Please try again."),
           setIsLoading |-> Str("false") ]
    ELSE [ onLogin |-> TRUE, setError |-> Null, setIsLoading |-> Str("false") ]

\* faulty variant: setIsLoading(false) is the last statement of the try
\* block instead of a finally block
submitLoginSettled_NoFinally(resp) ==
    IF resp = Null
    THEN [ onLogin |-> FALSE, setError |-> Str("Network error. Please try again."),
           setIsLoading |-> Null ]
    ELSE IF resp.status = "success"
    THEN [ onLogin |-> TRUE, setError |-> Null, setIsLoading |-> Str("false") ]
    ELSE [ onLogin |-> FALSE,
           setError |-> Str(IF "message" \in DOMAIN resp /\ resp.message # ""
                            THEN resp.message ELSE "Login failed"),
           setIsLoading |-> Str("false") ]

\* submitLogin after the await (lines 45-58): what it calls for the value
\* apiService.login resolved with.  Reading .status of a null payload throws
\* a TypeError inside the try block.  setError and setIsLoading are Null
\* where the setter is not called.
submitLoginSettled(resp) ==
    IF resp = Null
    THEN [ onLogin |-> FALSE, setError |-> Str("Network error. Please try again."),
           setIsLoading |-> Str("false") ]
    ELSE IF resp.status = "success"
    THEN [ onLogin |-> TRUE, setError |-> Null, setIsLoading |-> Str("false") ]
    ELSE [ onLogin |-> FALSE,
           setError |-> Str(IF "message" \in DOMAIN resp /\ resp.message # ""
                            THEN resp.message ELSE "Login failed"),
           setIsLoading |-> Str("false") ]

---------------------------------------------------------------------------
(* Inputs of the App exploration *)

Usernames == { "", "admin", "amina@kenyare.com" }

Passwords == { "", "secret" }

RegisterNames == { "", "Amina" }

RegisterEmails == { "", "amina@kenyare.com" }

\* what apiService.login resolves with: the server's payload for a 2xx
\* response (which may be the JSON value null) or request's error value
LoginResponses ==
    { [ status |-> "success", message |-> "Login successful" ],
      [ status |-> "error", message |-> "Invalid credentials" ],
      [ status |-> "error" ],
      ErrorValue([ isError |-> TRUE, message |-> "Failed to fetch" ]),
      Null }

\* the most login requests in flight at once
MaxInFlight == 2

---------------------------------------------------------------------------
(* App and AuthScreen as a state machine *)

AuthScreenMounted == user = Null

\* the state a newly mounted AuthScreen starts from; an unmounted one has none
FreshAuthScreen ==
    /\ tab' = "login"
    /\ isLoading' = FALSE
    /\ error' = Null
    /\ login' = [ username |-> "", password |-> "" ]
    /\ register' = [ name |-> "", email |-> "", password |-> "" ]

\* the requests in flight, none of them from a mounted AuthScreen any more
Orphaned(reqs) == [ i \in DOMAIN reqs |-> [ reqs[i] EXCEPT !.mounted = FALSE ] ]

\* s without its i-th element
RemoveAt(s, i) == SubSeq(s, 1, i - 1) \o SubSeq(s, i + 1, Len(s))

\* handleLogin: App's user is set, the dashboard replaces the AuthScreen
OnLogin(userData, reqs) ==
    /\ user' = userData
    /\ FreshAuthScreen
    /\ logins' = Orphaned(reqs)

\* onClick of the tab buttons
SetTab(t) ==
    /\ AuthScreenMounted
    /\ UNCHANGED nonAuthVars
    /\ tab' = t
    /\ authEvent' = [ name |-> "setTab" ]
    /\ UNCHANGED <<user, isLoading, error, login, register, logins>>

\* onLoginUsername (the input is disabled while isLoading)
OnLoginUsername(value) ==
    /\ AuthScreenMounted /\ tab = "login" /\ ~isLoading
    /\ UNCHANGED nonAuthVars
    /\ login' = [ login EXCEPT !.username = value ]
    /\ authEvent' = [ name |-> "onLoginUsername" ]
    /\ UNCHANGED <<user, tab, isLoading, error, register, logins>>

\* onLoginPassword
OnLoginPassword(value) ==
    /\ AuthScreenMounted /\ tab = "login" /\ ~isLoading
    /\ UNCHANGED nonAuthVars
    /\ login' = [ login EXCEPT !.password = value ]
    /\ authEvent' = [ name |-> "onLoginPassword" ]
    /\ UNCHANGED <<user, tab, isLoading, error, register, logins>>

\* onRegisterName, onRegisterEmail, onRegisterPassword
OnRegisterField(field, value) ==
    /\ AuthScreenMounted /\ tab = "register"
    /\ UNCHANGED nonAuthVars
    /\ register' = [ register EXCEPT ![field] = value ]
    /\ authEvent' = [ name |-> "onRegisterField" ]
    /\ UNCHANGED <<user, tab, isLoading, error, login, logins>>

\* submitLogin up to the await (lines 35-43); the submit button is disabled
\* while isLoading
SubmitLogin ==
    /\ AuthScreenMounted /\ tab = "login" /\ ~isLoading
    /\ UNCHANGED nonAuthVars
    /\ authEvent' = [ name |-> "submitLogin", login |-> login ]
    /\ IF LoginIncomplete(login)
       THEN UNCHANGED <<user, tab, isLoading, error, login, register, logins>>
       ELSE /\ Len(logins) < MaxInFlight
            /\ isLoading' = TRUE
            /\ error' = Null
            /\ logins' = Append(logins, [ username |-> login.username,
                                          password |-> login.password,
                                          mounted |-> TRUE ])
            /\ UNCHANGED <<user, tab, login, register>>

\* apiService.login settles for the i-th request in flight and submitLogin
\* runs on from the await; the setters of an AuthScreen that is not mounted
\* any more do nothing, onLogin is App's and always acts
LoginSettles(i, resp) ==
    /\ i \in DOMAIN logins
    /\ UNCHANGED nonAuthVars
    /\ LET req == logins[i]
           rest == RemoveAt(logins, i)
           calls == submitLoginSettled(resp)
       IN  /\ authEvent' = [ name |-> "loginSettled", login |-> req, response |-> resp ]
           /\ IF calls.onLogin
              THEN OnLogin(LoginUserData(req.username), rest)
              ELSE /\ logins' = rest
                   /\ UNCHANGED <<user, tab, login, register>>
                   /\ IF req.mounted
                      THEN /\ error' = IF calls.setError = Null THEN error
                                       ELSE calls.setError
                           /\ isLoading' = IF calls.setIsLoading = Null THEN isLoading
                                           ELSE FALSE
                      ELSE UNCHANGED <<error, isLoading>>

\* submitRegister (lines 61-71)
SubmitRegister ==
    /\ AuthScreenMounted /\ tab = "register"
    /\ UNCHANGED nonAuthVars
    /\ authEvent' = [ name |-> "submitRegister", register |-> register ]
    /\ IF RegisterIncomplete(register)
       THEN UNCHANGED <<user, tab, isLoading, error, login, register, logins>>
       ELSE OnLogin(RegisterUserData(register), logins)

\* handleLogout, from the dashboard's button: a new AuthScreen is mounted
Logout ==
    /\ ~AuthScreenMounted
    /\ UNCHANGED nonAuthVars
    /\ user' = Null
    /\ authEvent' = [ name |-> "logout" ]
    /\ UNCHANGED <<tab, isLoading, error, login, register, logins>>

AuthNext ==
    \/ \E t \in { "login", "register" } : SetTab(t)
    \/ \E value \in Usernames : OnLoginUsername(value)
    \/ \E value \in Passwords : OnLoginPassword(value)
    \/ \E value \in RegisterNames : OnRegisterField("name", value)
    \/ \E value \in RegisterEmails : OnRegisterField("email", value)
    \/ \E value \in Passwords : OnRegisterField("password", value)
    \/ SubmitLogin
    \/ \E i \in 1..MaxInFlight, resp \in LoginResponses : LoginSettles(i, resp)
    \/ SubmitRegister
    \/ Logout

AuthSpec == Init /\ [][AuthNext]_vars

\* every login request in flight settles: fetch resolves or rejects in the end
AuthFairness ==
    \A i \in 1..MaxInFlight :
        WF_vars(\E resp \in LoginResponses : LoginSettles(i, resp))

AuthLiveSpec == AuthSpec /\ AuthFairness

---------------------------------------------------------------------------
(* C24 *)

\* the handler that ran last was submitLogin's continuation for a response
\* with status 'success'
LoginSucceeded(event) ==
    /\ event.name = "loginSettled"
    /\ event.response # Null
    /\ event.response.status = "success"

\* C24: in App the dashboard is shown exactly when user is non-null; user
\* becomes non-null only when apiService.login has resolved with status
\* 'success' for a non-empty username and password or when a registration
\* form with non-empty name, email and password is submitted; a failed or
\* errored login leaves user as it was (null); logout sets user back to null
\* and the auth screen is shown again.
C24_UserSetOnlyBySuccessfulLogin ==
    /\ [](Screen = "MainDashboard" <=> user # Null)
    /\ [][ /\ (user = Null /\ user' # Null) =>
                \/ /\ LoginSucceeded(authEvent')
                   /\ ~LoginIncomplete(authEvent'.login)
                   /\ user' = LoginUserData(authEvent'.login.username)
                \/ /\ authEvent'.name = "submitRegister"
                   /\ ~RegisterIncomplete(authEvent'.register)
                   /\ user' = RegisterUserData(authEvent'.register)
           /\ (authEvent'.name = "loginSettled" /\ ~LoginSucceeded(authEvent')) =>
                user' = user
           /\ authEvent'.name = "logout" =>
                user' = Null /\ Screen' = "AuthScreen"
         ]_vars

\* a login resolved with 'success' after the user had registered and logged
\* out again: the dashboard is shown for the login's user
C24_Witness ==
    /\ LoginSucceeded(authEvent)
    /\ ~authEvent.login.mounted
    /\ user = LoginUserData("admin")
    /\ Screen = "MainDashboard"

---------------------------------------------------------------------------
(* C25 *)

\* C25: every login attempt that starts (isLoading set to true) eventually
\* ends with isLoading false, whether the request succeeds, returns an error
\* status or throws: the continuation of a request sent by the mounted
\* AuthScreen leaves isLoading false; and a submit with an empty username or
\* password starts no request and changes neither isLoading nor error.
C25_LoginAttemptEnds ==
    /\ isLoading ~> ~isLoading
    /\ [][ /\ (authEvent'.name = "loginSettled" /\ authEvent'.login.mounted) =>
                ~isLoading'
           /\ (authEvent'.name = "submitLogin" /\ LoginIncomplete(authEvent'.login)) =>
                UNCHANGED <<isLoading, error, logins, user>>
           /\ (authEvent'.name = "submitLogin" /\ ~LoginIncomplete(authEvent'.login)) =>
                isLoading' /\ Len(logins') = Len(logins) + 1
         ]_vars

\* a login attempt ended in the catch block: the response was null, reading
\* its status threw, and isLoading is false again
C25_Witness ==
    /\ authEvent.name = "loginSettled"
    /\ authEvent.login.mounted
    /\ authEvent.response = Null
    /\ error = Str("Network error. Please try again.")
    /\ ~isLoading

---------------------------------------------------------------------------
(* MainDashboard (part_003) and the fetching of TicketFeed                  *)
(* (TicketDetail.tsx lines 547-589, 647-649)                                *)

\* handleRunAnalysis after the awaits (lines 37-57): the alert it shows,
\* whether it dispatches 'refreshData', and the finally block.  Reading
\* .status of a null payload throws a TypeError inside the try block.
handleRunAnalysisSettled(resp) ==
    IF resp = Null
    THEN [ alert |-> [ text |-> "Network error during analysis" ],
           dispatchEvent |-> FALSE, setIsRunningAnalysis |-> Str("false") ]
    ELSE IF resp.status = "success"
    THEN LET data == IF "data" \in DOMAIN resp THEN resp.data ELSE << >>
             generated == IF "reports_generated" \in DOMAIN data
                          THEN data.reports_generated ELSE 0
             total == IF "total_reports" \in DOMAIN data
                      THEN data.total_reports ELSE 0
         IN  [ alert |-> IF generated > 0
                         THEN [ text |-> "Analysis completed! Generated ${n} new reports",
                                n |-> generated ]
                         ELSE [ text |-> "Analysis completed! Processed ${n} total reports",
                                n |-> total ],
               dispatchEvent |-> TRUE, setIsRunningAnalysis |-> Str("false") ]
    ELSE [ alert |-> [ text |-> "Analysis failed: ${message}",
                       message |-> IF "message" \in DOMAIN resp /\ resp.message # ""
                                   THEN resp.message ELSE "Unknown error" ],
           dispatchEvent |-> FALSE, setIsRunningAnalysis |-> Str("false") ]

\* fetchReports after the await (lines 579-588): the setters it calls, Null
\* where a setter is not called
fetchReportsSettled(resp) ==
    IF resp = Null
    THEN [ setReports |-> Null, setError |-> Str("Network error. Please try again."),
           setIsLoading |-> Str("false") ]
    ELSE IF resp.status = "success" /\ "data" \in DOMAIN resp
    THEN [ setReports |-> [ data |-> resp.data ], setError |-> Null,
           setIsLoading |-> Str("false") ]
    ELSE [ setReports |-> Null,
           setError |-> Str(IF "message" \in DOMAIN resp /\ resp.message # ""
                            THEN resp.message ELSE "Failed to fetch reports"),
           setIsLoading |-> Str("false") ]

---------------------------------------------------------------------------
(* Inputs of the MainDashboard exploration *)

\* the views of the sidebar: the ticket feed and two of the others
Views == { "tickets", "analytics", "settings" }

\* what apiService.runAnalysis resolves with
RunAnalysisResponses ==
    { [ status |-> "success", data |-> [ reports_generated |-> 2, total_reports |-> 5 ] ],
      [ status |-> "success", data |-> [ reports_generated |-> 0, total_reports |-> 5 ] ],
      [ status |-> "success" ],
      [ status |-> "error", message |-> "Pipeline failed" ],
      ErrorValue(HttpError(500)),
      Null }

\* the reports the backend holds at different times
\* (an id is the sequence of its pieces, so that '#' can be put before it
\* and taken away again)
FeedReport(id, classification, fraud_indicators) ==
    [ id |-> id, classification |-> classification,
      fraud_indicators |-> fraud_indicators ]

ReportLists ==
    { << >>,
      << FeedReport(<< "RPT-001" >>, "VALID", << >>) >>,
      << FeedReport(<< "RPT-001" >>, "VALID", << >>),
         FeedReport(<< "RPT", "#", "2" >>, "POTENTIALLY FRAUDULENT",
                    << "Duplicate invoice", "Amount above treaty limit" >>),
         FeedReport(<< "RPT-003" >>, "INSUFFICIENT EVIDENCE",
                    << "Missing loss date" >>) >> }

\* what apiService.getReports resolves with
GetReportsResponses ==
    { [ status |-> "success", data |-> l ] : l \in ReportLists }
    \cup { [ status |-> "success" ],
           ErrorValue(HttpError(500)),
           Null }

\* the most analysis runs and getReports requests in flight at once
MaxRuns == 2

MaxFetches == 2

---------------------------------------------------------------------------
(* MainDashboard and TicketFeed as a state machine *)

DashboardMounted == user # Null

\* renderContent: the TicketFeed is rendered for the view 'tickets'
TicketFeedMounted == DashboardMounted /\ activeView = "tickets"

\* the requests in flight, none of them from a mounted component any more
\* and none the one a mounted component started last
OrphanedFetches(fs) == [ i \in DOMAIN fs |-> [ mounted |-> FALSE, latest |-> FALSE ] ]

\* fetchReports up to the await (lines 573-577), called by the mounted
\* TicketFeed
FetchReports ==
    /\ Len(fetches) < MaxFetches
    /\ feedIsLoading' = TRUE
    /\ feedError' = Null
    /\ fetches' = Append([ i \in DOMAIN fetches |->
                             [ fetches[i] EXCEPT !.latest = FALSE ] ],
                         [ mounted |-> TRUE, latest |-> TRUE ])
    /\ latestFetch' = [ state |-> "pending" ]
    /\ UNCHANGED reports

\* a TicketFeed is mounted: initial state, then the effect of lines 557-570
\* calls fetchReports
TicketFeedMounts ==
    /\ Len(fetches) < MaxFetches
    /\ reports' = << >>
    /\ feedIsLoading' = TRUE
    /\ feedError' = Null
    /\ fetches' = Append(OrphanedFetches(fetches), [ mounted |-> TRUE, latest |-> TRUE ])
    /\ latestFetch' = [ state |-> "pending" ]

\* the TicketFeed, if one is mounted, is unmounted: its state is gone and
\* its listener removed
TicketFeedUnmounts ==
    /\ reports' = << >>
    /\ feedIsLoading' = TRUE
    /\ feedError' = Null
    /\ fetches' = OrphanedFetches(fetches)
    /\ latestFetch' = [ state |-> "none" ]

\* App.handleLogin: the MainDashboard is mounted with the view 'tickets'
MountDashboard ==
    /\ ~DashboardMounted
    /\ UNCHANGED nonDashVars
    /\ user' = LoginUserData("admin")
    /\ activeView' = "tickets"
    /\ isRunningAnalysis' = FALSE
    /\ UNCHANGED runs
    /\ dashEvent' = [ name |-> "mount" ]
    /\ TicketFeedMounts

\* App.handleLogout, onClick of Sign Out: the MainDashboard is unmounted
HandleLogout ==
    /\ DashboardMounted
    /\ UNCHANGED nonDashVars
    /\ user' = Null
    /\ activeView' = "tickets"
    /\ isRunningAnalysis' = FALSE
    /\ runs' = [ i \in DOMAIN runs |-> [ runs[i] EXCEPT !.mounted = FALSE ] ]
    /\ dashEvent' = [ name |-> "logout" ]
    /\ TicketFeedUnmounts

\* onClick of a sidebar item
SetActiveView(view) ==
    /\ DashboardMounted
    /\ view # activeView
    /\ UNCHANGED nonDashVars
    /\ UNCHANGED <<user, isRunningAnalysis, runs>>
    /\ activeView' = view
    /\ dashEvent' = [ name |-> "setActiveView" ]
    /\ IF view = "tickets" THEN TicketFeedMounts
       ELSE IF activeView = "tickets" THEN TicketFeedUnmounts
       ELSE UNCHANGED feedVars

\* handleRunAnalysis up to the first await (lines 29-34); the button is
\* disabled while isRunningAnalysis
HandleRunAnalysis ==
    /\ DashboardMounted
    /\ ~isRunningAnalysis
    /\ Len(runs) < MaxRuns
    /\ UNCHANGED nonDashVars
    /\ UNCHANGED <<user, activeView>>
    /\ UNCHANGED feedVars
    /\ isRunningAnalysis' = TRUE
    /\ runs' = Append(runs, [ mounted |-> TRUE, pc |-> "import" ])
    /\ dashEvent' = [ name |-> "handleRunAnalysis" ]

\* the import of the api module resolves (it is part of the bundle) and
\* apiService.runAnalysis is called
ImportResolves(i) ==
    /\ i \in DOMAIN runs
    /\ runs[i].pc = "import"
    /\ UNCHANGED nonDashVars
    /\ UNCHANGED <<user, activeView, isRunningAnalysis>>
    /\ UNCHANGED feedVars
    /\ runs' = [ runs EXCEPT ![i].pc = "runAnalysis" ]
    /\ dashEvent' = [ name |-> "importResolved" ]

\* apiService.runAnalysis settles for the i-th run and handleRunAnalysis
\* runs on: the alert, the 'refreshData' event, which the mounted
\* TicketFeed's listener answers with fetchReports, and the finally block
RunAnalysisSettles(i, resp) ==
    /\ i \in DOMAIN runs
    /\ runs[i].pc = "runAnalysis"
    /\ UNCHANGED nonDashVars
    /\ UNCHANGED <<user, activeView>>
    /\ LET calls == handleRunAnalysisSettled(resp)
       IN  /\ dashEvent' = [ name |-> "runAnalysisSettled", response |-> resp,
                             alert |-> calls.alert,
                             dispatchEvent |-> calls.dispatchEvent ]
           /\ runs' = RemoveAt(runs, i)
           /\ isRunningAnalysis' =
                 IF runs[i].mounted /\ calls.setIsRunningAnalysis # Null
                 THEN FALSE ELSE isRunningAnalysis
           /\ IF calls.dispatchEvent /\ TicketFeedMounted
              THEN FetchReports
              ELSE UNCHANGED feedVars

\* handleRefresh, onClick of Retry and of Refresh: both are rendered only
\* while isLoading is false, and the ticket dialog, when open, covers them
HandleRefresh ==
    /\ TicketFeedMounted
    /\ ~feedIsLoading
    /\ selectedTicket = Null
    /\ UNCHANGED nonDashVars
    /\ UNCHANGED <<user, activeView, isRunningAnalysis, runs>>
    /\ dashEvent' = [ name |-> "handleRefresh" ]
    /\ FetchReports

\* apiService.getReports settles for the i-th request and fetchReports runs
\* on; the setters of a TicketFeed that is not mounted any more do nothing
GetReportsSettles(i, resp) ==
    /\ i \in DOMAIN fetches
    /\ UNCHANGED nonDashVars
    /\ UNCHANGED <<user, activeView, isRunningAnalysis, runs>>
    /\ dashEvent' = [ name |-> "getReportsSettled", response |-> resp ]
    /\ fetches' = RemoveAt(fetches, i)
    /\ LET calls == fetchReportsSettled(resp)
       IN  IF fetches[i].mounted
           THEN /\ reports' = IF calls.setReports = Null THEN reports
                              ELSE calls.setReports.data
                /\ feedError' = IF calls.setError = Null THEN feedError
                                ELSE calls.setError
                /\ feedIsLoading' = IF calls.setIsLoading = Null THEN feedIsLoading
                                    ELSE FALSE
                /\ latestFetch' = IF fetches[i].latest
                                  THEN [ state |-> "settled", response |-> resp ]
                                  ELSE latestFetch
           ELSE UNCHANGED <<reports, feedError, feedIsLoading, latestFetch>>

DashNext ==
    \/ MountDashboard
    \/ HandleLogout
    \/ \E view \in Views : SetActiveView(view)
    \/ HandleRunAnalysis
    \/ \E i \in 1..MaxRuns : ImportResolves(i)
    \/ \E i \in 1..MaxRuns, resp \in RunAnalysisResponses : RunAnalysisSettles(i, resp)
    \/ HandleRefresh
    \/ \E i \in 1..MaxFetches, resp \in GetReportsResponses : GetReportsSettles(i, resp)

DashSpec == Init /\ [][DashNext]_vars

\* every await of a run in flight settles in the end
DashFairness ==
    \A i \in 1..MaxRuns :
        /\ WF_vars(ImportResolves(i))
        /\ WF_vars(\E resp \in RunAnalysisResponses : RunAnalysisSettles(i, resp))

DashLiveSpec == DashSpec /\ DashFairness

---------------------------------------------------------------------------
(* C26 *)

\* C26: in MainDashboard every started analysis run eventually resets
\* isRunningAnalysis to false, on success, on an error response and on a
\* thrown error; a run is started only while isRunningAnalysis is false (the
\* button is disabled otherwise), so at most one run is in flight; and the
\* 'refreshData' event is dispatched only after a run whose response status
\* is 'success'.
C26_OneRunAtATime ==
    /\ isRunningAnalysis ~> ~isRunningAnalysis
    /\ [](Len(runs) <= 1)
    /\ [][ /\ dashEvent'.name = "handleRunAnalysis" =>
                ~isRunningAnalysis /\ isRunningAnalysis'
           /\ (dashEvent'.name = "runAnalysisSettled" /\ dashEvent'.dispatchEvent) =>
                /\ dashEvent'.response # Null
                /\ dashEvent'.response.status = "success"
         ]_vars

---------------------------------------------------------------------------
(* C27 *)

\* a getReports request of the mounted TicketFeed is in flight
FetchInFlight == \E i \in DOMAIN fetches : fetches[i].mounted

\* C27: in TicketFeed, under any interleaving of fetches started by mount,
\* by a 'refreshData' event and by the Retry / Refresh button, isLoading is
\* true whenever at least one fetch is still in flight, and once all fetches
\* have completed the reports shown are those of the fetch that was started
\* last, if it brought reports (an earlier, slower response never overwrites
\* a later one).
C27_LatestFetchWins ==
    TicketFeedMounted =>
        /\ FetchInFlight => feedIsLoading
        /\ ( /\ ~FetchInFlight
             /\ latestFetch.state = "settled"
             /\ fetchReportsSettled(latestFetch.response).setReports # Null ) =>
               reports = latestFetch.response.data

---------------------------------------------------------------------------
(* C30 *)

\* the band of scores of a classification
Band(classification) ==
    CASE classification = "POTENTIALLY FRAUDULENT" -> 80..100
      [] classification = "INSUFFICIENT EVIDENCE" -> 40..70
      [] OTHER -> 5..20

\* C30: for every classification and every number n >= 0 of fraud
\* indicators, getFraudScore returns an integer in [0, 100] that falls in the
\* band of its classification: [80, 100] for POTENTIALLY FRAUDULENT, [40, 70]
\* for INSUFFICIENT EVIDENCE, [5, 20] otherwise; within the first two bands
\* the score never decreases as n grows; and a POTENTIALLY FRAUDULENT report
\* is always shown in the high (>= 80) colour band.
C30_FraudScoreInBand ==
    op = "getFraudScore" =>
        /\ result.fraudScore \in 0..100
        /\ result.fraudScore \in Band(args.classification)
        /\ args.classification \in { "POTENTIALLY FRAUDULENT", "INSUFFICIENT EVIDENCE" } =>
              \A fewer \in IndicatorLists :
                  Len(fewer) <= Len(args.indicators) =>
                      getFraudScore(args.classification, fewer) <= result.fraudScore
        /\ args.classification = "POTENTIALLY FRAUDULENT" =>
              result.color = "text-red-600" /\ result.status = "Flagged"

\* a fraudulent report with no indicator scores exactly 80, the bottom of the
\* high band
C30_Witness ==
    /\ op = "getFraudScore"
    /\ args.classification = "POTENTIALLY FRAUDULENT"
    /\ args.indicators = << >>
    /\ result.fraudScore = 80
    /\ result.color = "text-red-600"

---------------------------------------------------------------------------
(* The ticket dialog: TicketDetail (TicketDetail.tsx lines 56-201, 400-413) *)
(* and TicketFeed's selection and closing (lines 640-645, 816-856).  The    *)
(* uploaded files and the draft take no part in closing and are left out.   *)

Whitespace == { " ", "\t", "\n" }

\* s.trim() on the sequence of the characters of s
RECURSIVE TrimStart(_)
TrimStart(s) ==
    IF s # << >> /\ Head(s) \in Whitespace THEN TrimStart(Tail(s)) ELSE s

RECURSIVE TrimEnd(_)
TrimEnd(s) ==
    IF s # << >> /\ s[Len(s)] \in Whitespace
    THEN TrimEnd(SubSeq(s, 1, Len(s) - 1)) ELSE s

Trim(s) == TrimEnd(TrimStart(s))

\* ticketId.replace('#', '') : the first '#' is taken away, wherever it is
RECURSIVE ReplaceHash(_)
ReplaceHash(ticketId) ==
    IF ticketId = << >> THEN << >>
    ELSE IF Head(ticketId) = "#" THEN Tail(ticketId)
    ELSE << Head(ticketId) >> \o ReplaceHash(Tail(ticketId))

\* faulty variant: the comment is not trimmed
CloseAllowed_NoTrim(decision, comment) ==
    decision # Null /\ comment # << >>

\* reviewDecision && reviewComment.trim() (onCloseTicket is always passed)
CloseAllowed(decision, comment) ==
    decision # Null /\ Trim(comment) # << >>

\* the reviewData of handleCloseTicket (and of handleSubmitReview, which no
\* button calls)
ReviewData(ticket, decision, comment, status) ==
    [ ticketId |-> ticket.id, decision |-> decision.str, comment |-> comment,
      status |-> status ]

\* the status handleReviewAction sets for an action
StatusOfAction(action) ==
    CASE action = "approve" -> "Approved"
      [] action = "reject" -> "Rejected"
      [] action = "reclaim" -> "Reclaimed"

\* prevReports.filter(report => report.id !== reportId), lines 642-643
RemoveReport(prevReports, ticketId) ==
    LET reportId == ReplaceHash(ticketId)
    IN  SelectSeq(prevReports, LAMBDA report : report.id # reportId)

---------------------------------------------------------------------------
(* Inputs of the ticket dialog exploration *)

\* review comments: empty, blank, plain, and with blanks around
Comments ==
    { << >>, << " ", "\t" >>, << "o", "k" >>, << " ", "o", " ", "k", " " >> }

ReviewActions == { "approve", "reject", "reclaim" }

\* the items of the status editor's Select
StatusOptions == { "Auto Approved", "Flagged", "Rejected", "Pending Review", "Closed" }

\* the most close timers pending at once
MaxTimers == 2

---------------------------------------------------------------------------
(* The ticket dialog as a state machine *)

\* the dialog is open and the TicketDetail in it is rendered
TicketDetailMounted ==
    TicketFeedMounted /\ ~feedIsLoading /\ feedError = Null /\ selectedTicket # Null

\* the state a newly mounted TicketDetail starts from for a ticket
FreshTicketDetail(status) ==
    /\ reviewComment' = << >>
    /\ reviewDecision' = Null
    /\ currentStatus' = status
    /\ isEditingStatus' = FALSE

\* onClick of a ticket of the list: setSelectedTicket(ticket)
SelectTicket(i) ==
    /\ TicketFeedMounted /\ ~feedIsLoading /\ feedError = Null
    /\ selectedTicket = Null
    /\ i \in DOMAIN reports
    /\ UNCHANGED nonTicketVars
    /\ UNCHANGED feedVars
    /\ selectedTicket' = Ticket(reports[i])
    /\ FreshTicketDetail(Ticket(reports[i]).status)
    /\ UNCHANGED closeTimers
    /\ ticketEvent' = [ name |-> "selectTicket" ]

\* onOpenChange of the dialog: setSelectedTicket(null)
CloseDialog ==
    /\ TicketDetailMounted
    /\ UNCHANGED nonTicketVars
    /\ UNCHANGED feedVars
    /\ selectedTicket' = Null
    /\ FreshTicketDetail("")
    /\ UNCHANGED closeTimers
    /\ ticketEvent' = [ name |-> "closeDialog" ]

\* onChange of the comment box
SetReviewComment(value) ==
    /\ TicketDetailMounted
    /\ UNCHANGED nonTicketVars
    /\ UNCHANGED feedVars
    /\ reviewComment' = value
    /\ UNCHANGED <<selectedTicket, reviewDecision, currentStatus, isEditingStatus,
                   closeTimers>>
    /\ ticketEvent' = [ name |-> "setReviewComment" ]

\* handleReviewAction(action), lines 63-76
HandleReviewAction(action) ==
    /\ TicketDetailMounted
    /\ UNCHANGED nonTicketVars
    /\ UNCHANGED feedVars
    /\ reviewDecision' = Str(action)
    /\ currentStatus' = StatusOfAction(action)
    /\ isEditingStatus' = FALSE
    /\ UNCHANGED <<selectedTicket, reviewComment, closeTimers>>
    /\ ticketEvent' = [ name |-> "handleReviewAction" ]

\* onClick of the edit button beside the status badge
EditStatus ==
    /\ TicketDetailMounted
    /\ ~isEditingStatus
    /\ UNCHANGED nonTicketVars
    /\ UNCHANGED feedVars
    /\ isEditingStatus' = TRUE
    /\ UNCHANGED <<selectedTicket, reviewComment, reviewDecision, currentStatus,
                   closeTimers>>
    /\ ticketEvent' = [ name |-> "editStatus" ]

\* onValueChange of the status Select: setCurrentStatus
SelectStatus(status) ==
    /\ TicketDetailMounted
    /\ isEditingStatus
    /\ UNCHANGED nonTicketVars
    /\ UNCHANGED feedVars
    /\ currentStatus' = status
    /\ UNCHANGED <<selectedTicket, reviewComment, reviewDecision, isEditingStatus,
                   closeTimers>>
    /\ ticketEvent' = [ name |-> "selectStatus" ]

\* onClick of Save in the status editor
SaveStatus ==
    /\ TicketDetailMounted
    /\ isEditingStatus
    /\ UNCHANGED nonTicketVars
    /\ UNCHANGED feedVars
    /\ isEditingStatus' = FALSE
    /\ UNCHANGED <<selectedTicket, reviewComment, reviewDecision, currentStatus,
                   closeTimers>>
    /\ ticketEvent' = [ name |-> "saveStatus" ]

\* onClick of Cancel in the status editor
CancelStatus ==
    /\ TicketDetailMounted
    /\ isEditingStatus
    /\ UNCHANGED nonTicketVars
    /\ UNCHANGED feedVars
    /\ currentStatus' = selectedTicket.status
    /\ isEditingStatus' = FALSE
    /\ UNCHANGED <<selectedTicket, reviewComment, reviewDecision, closeTimers>>
    /\ ticketEvent' = [ name |-> "cancelStatus" ]

\* TicketDetail.handleCloseTicket, lines 78-94: the review is submitted and
\* a timer set that will close the ticket.  (The button's disabled condition
\* of line 407 repeats the handler's own.)
HandleCloseTicket ==
    /\ TicketDetailMounted
    /\ UNCHANGED nonTicketVars
    /\ UNCHANGED feedVars
    /\ UNCHANGED <<selectedTicket, reviewComment, reviewDecision, currentStatus,
                   isEditingStatus>>
    /\ IF CloseAllowed(reviewDecision, reviewComment)
       THEN /\ Len(closeTimers) < MaxTimers
            /\ closeTimers' = Append(closeTimers, selectedTicket.id)
            /\ ticketEvent' = [ name |-> "handleCloseTicket",
                                reviewData |-> ReviewData(selectedTicket, reviewDecision,
                                                          reviewComment, currentStatus) ]
       ELSE /\ UNCHANGED closeTimers
            /\ ticketEvent' = [ name |-> "handleCloseTicket" ]

\* the i-th timer fires: TicketFeed.handleCloseTicket(ticketId), lines 640-645
CloseTimerFires(i) ==
    /\ i \in DOMAIN closeTimers
    /\ TicketFeedMounted
    /\ UNCHANGED nonTicketVars
    /\ UNCHANGED <<feedIsLoading, feedError, fetches, latestFetch>>
    /\ closeTimers' = RemoveAt(closeTimers, i)
    /\ reports' = RemoveReport(reports, closeTimers[i])
    /\ selectedTicket' = Null
    /\ FreshTicketDetail("")
    /\ ticketEvent' = [ name |-> "closeTicket", ticketId |-> closeTimers[i] ]

TicketNext ==
    \/ MountDashboard
    \/ HandleRefresh
    \/ \E i \in 1..MaxFetches, resp \in GetReportsResponses : GetReportsSettles(i, resp)
    \/ \E i \in 1..3 : SelectTicket(i)
    \/ CloseDialog
    \/ \E value \in Comments : SetReviewComment(value)
    \/ \E action \in ReviewActions : HandleReviewAction(action)
    \/ EditStatus
    \/ \E status \in StatusOptions : SelectStatus(status)
    \/ SaveStatus
    \/ CancelStatus
    \/ HandleCloseTicket
    \/ \E i \in 1..MaxTimers : CloseTimerFires(i)

TicketSpec == Init /\ [][TicketNext]_vars

---------------------------------------------------------------------------
(* C28: a close timer is set only by a step taken with a review decision    *)
(* chosen and a review comment that is non-empty after trimming, and it is  *)
(* set for the ticket on display; when a timer fires, TicketFeed removes    *)
(* exactly the reports whose id is the ticket id without its leading '#',   *)
(* keeps every other report in its place, and clears the selected ticket.   *)
C28_CloseOnlyReviewedAndRemoveOne ==
    [][ /\ closeTimers' # closeTimers /\ Len(closeTimers') >= Len(closeTimers)
           => /\ reviewDecision # Null
              /\ Trim(reviewComment) # << >>
              /\ selectedTicket # Null
              /\ closeTimers' = Append(closeTimers, selectedTicket.id)
        /\ Len(closeTimers') < Len(closeTimers)
           => /\ ticketEvent'.name = "closeTicket"
              /\ Head(ticketEvent'.ticketId) = "#"
              /\ reports' = SelectSeq(reports,
                     LAMBDA report : report.id # Tail(ticketEvent'.ticketId))
              /\ selectedTicket' = Null
        /\ (reports' # reports /\ Len(closeTimers') >= Len(closeTimers))
           => dashEvent'.name = "getReportsSettled"
      ]_vars

\* a ticket whose report id holds a '#' of its own has just been closed out
\* of a list of three, and the two other reports are still listed
C28_Witness ==
    /\ ticketEvent.name = "closeTicket"
    /\ ticketEvent.ticketId = << "#", "RPT", "#", "2" >>
    /\ Len(reports) = 2
    /\ \A i \in DOMAIN reports : reports[i].id # << "RPT", "#", "2" >>
    /\ selectedTicket = Null

---------------------------------------------------------------------------
(* C29: the status submitted with a review agrees with the decision         *)
(* submitted with it: 'approve' with 'Approved', 'reject' with 'Rejected',  *)
(* 'reclaim' with 'Reclaimed'.                                              *)
C29_SubmittedStatusAgreesWithDecision ==
    (ticketEvent.name = "handleCloseTicket" /\ "reviewData" \in DOMAIN ticketEvent)
        => ticketEvent.reviewData.status = StatusOfAction(ticketEvent.reviewData.decision)

=============================================================================
